---- MODULE Spec2Model ----
(***************************************************************************)
(* The web-update path of the desktop client: MainWindow::checkWebUpdates, *)
(* verifyUpdateSignature, loadWebUpdates and removeWebUpdates              *)
(* (src/MainWindow.cpp) over the manifest types of src/WebUpdates.hpp.     *)
(*                                                                         *)
(* Abstractions.  A compact signature is the record of who signed which    *)
(* digest; recovering a key from it under another digest yields an address *)
(* nobody holds.  sha256 over "package bytes ++ signable string" is the    *)
(* pair of the two (the signable string is one JSON object, so the         *)
(* concatenation splits in one way only).  A byte array is either an lzma  *)
(* stream or junk, and a decompressed stream is either a packed vector of  *)
(* (path, bytes) pairs or junk.  releaseNotes and updatePackageUrl take    *)
(* no part in any decision of the code and are left out of UpdateDetails.  *)
(* fc::ecc::public_key is taken to yield a key for every signature, and a  *)
(* web.json found on disk is taken to parse as an UpdateDetails.           *)
(*                                                                         *)
(* Event loops.  Every handler runs to its end before the next one starts, *)
(* except across QMessageBox::exec(): while an "update available" dialog   *)
(* is open, replies, timers and queued calls are handled inside exec(),    *)
(* and the handler that opened the dialog goes on when its own exec()      *)
(* returns, innermost first.  The dialogs are window-modal, so the File    *)
(* menu is out of reach while one is open.  The process may end at any     *)
(* point, also between the file writes of an install; the next process     *)
(* starts with the files as they were left.                                *)
(*                                                                         *)
(* Deep links.  MainWindow::processCustomUrl is modelled on its own, as a  *)
(* function from the string it is given to what it does to the web view    *)
(* (SpecUrl).                                                              *)
(* (SpecUrl).  The location bar and the urlChanged handler (SpecView), the *)
(* parameter parsing of goToRefCode and goToTransfer (SpecParameters), the *)
(* call order of loadWebUpdates and removeWebUpdates (SpecReload) and the  *)
(* startup sequence with its deferred deep links (SpecStartup) have their  *)
(* own specifications over the same variables.                             *)
(***************************************************************************)
EXTENDS Integers, Sequences, FiniteSets, TLC

VARIABLES
    majorVersion,           \* MainWindow::_majorVersion
    forkVersion,            \* MainWindow::_forkVersion
    minorVersion,           \* MainWindow::_minorVersion
    patchVersion,           \* MainWindow::_patchVersion (character code)
    webUpdateDescription,   \* MainWindow::_webUpdateDescription
    webJson,                \* <data dir>/web.json: {} when absent, {descriptor} otherwise
    webDat,                 \* <data dir>/web.dat:  {} when absent, {bytes} otherwise
    webPackage,             \* the map last given to ClientWrapper::set_web_package
    activeSource,           \* history: the (descriptor, bytes) webPackage was built from
    inflight,               \* network requests awaiting their reply, per kind of request
    dialogs,                \* open "update available" dialogs, innermost event loop last
    updateCheckerActive,    \* MainWindow::_updateChecker is running
    pendingLoads,           \* queued QTimer::singleShot(0, loadWebUpdates) calls
    started,                \* BitSharesApp::run has made its loadWebUpdates call
    reply,                  \* the input a single handler run is given (see SpecReply, SpecUrl)
    walletUnlocked,         \* wallet::is_unlocked() of the client's wallet
    installing,             \* the install of lines 942-950 under way: {} or {its position}
    crashPoint,             \* history: where the previous process ended, until the startup load
    effects,                \* the calls made so far in a specification of single handlers, in order
    visible,                \* MainWindow::isVisible()
    deferredUrl,            \* MainWindow::_deferredUrl
    startup                 \* how far BitSharesApp::run has come (see SpecStartup)

vars == <<majorVersion, forkVersion, minorVersion, patchVersion, webUpdateDescription,
          webJson, webDat, webPackage, activeSource, inflight, dialogs,
          updateCheckerActive, pendingLoads, started, reply, walletUnlocked,
          installing, crashPoint, effects, visible, deferredUrl, startup>>

(***************************************************************************)
(* Bounds of the model.                                                    *)
(***************************************************************************)
MaxRuns == 2            \* checkWebUpdates runs alive at once
MaxManifest == 2        \* entries in a manifest reply
MaxPendingLoads == 1    \* queued loadWebUpdates calls

(***************************************************************************)
(* src/WebUpdates.hpp                                                      *)
(***************************************************************************)
WEB_UPDATES_SIGNATURE_REQUIREMENT == 2

WEB_UPDATES_SIGNING_KEYS == {"key1", "key2", "key3", "key4"}

\* bts::utilities::git_revision_unix_timestamp, the build's own timestamp
BuildTimestamp == 2

UpdateDetails(major, fork, minor, patch, sigs, ts) ==
    [majorVersion |-> major, forkVersion |-> fork, minorVersion |-> minor,
     patchVersion |-> patch, signatures |-> sigs, timestamp |-> ts]

\* UpdateDetails(): version 0.4.16-a, no signature, time_point_sec() = 0
DefaultUpdateDetails == UpdateDetails(0, 4, 16, 97, {}, 0)

\* operator< comparing the patch with <=
LessOrEqualPatch(a, b) ==
    IF a.majorVersion # b.majorVersion THEN a.majorVersion < b.majorVersion
    ELSE IF a.forkVersion # b.forkVersion THEN a.forkVersion < b.forkVersion
    ELSE IF a.minorVersion # b.minorVersion THEN a.minorVersion < b.minorVersion
    ELSE a.patchVersion <= b.patchVersion

\* UpdateDetails::operator<
Less(a, b) ==
    IF a.majorVersion # b.majorVersion THEN a.majorVersion < b.majorVersion
    ELSE IF a.forkVersion # b.forkVersion THEN a.forkVersion < b.forkVersion
    ELSE IF a.minorVersion # b.minorVersion THEN a.minorVersion < b.minorVersion
    ELSE a.patchVersion < b.patchVersion

\* UpdateDetails::signable_string: the JSON of a copy with the signatures cleared
signable_string(ud) == [ud EXCEPT !.signatures = {}]

(***************************************************************************)
(* Signatures and digests (fc::sha256, fc::ecc).                           *)
(***************************************************************************)
\* sha256 over the package bytes followed by the signable string
Sha256(updatePackage, desc) == <<updatePackage, signable_string(desc)>>

\* a compact signature by the holder of `key` over `hash`; nonce tells apart
\* two signatures of one key over one digest
Signature(key, nonce, hash) == [signer |-> key, nonce |-> nonce, msg |-> hash]

\* bts::blockchain::address(fc::ecc::public_key(signature, hash, false))
RecoverAddress(signature, hash) ==
    IF signature.msg = hash THEN signature.signer ELSE "nobody"

(***************************************************************************)
(* Package bytes (fc::lzma_decompress, fc::raw::unpack).                   *)
(***************************************************************************)
JunkStream == [fmt |-> "junk", files |-> <<>>]
Packed(files) == [fmt |-> "packed", files |-> files]
Lzma(stream) == [fmt |-> "lzma", stream |-> stream]
JunkBytes == [fmt |-> "junk", stream |-> JunkStream]

\* a strict prefix of bytes (none of them, or some): what a file holds while
\* the rest of a write is still in QFile's buffer.  No prefix is an lzma
\* stream or the bytes anybody signed, and they are told apart no further.
PrefixOf(bytes) == [fmt |-> "prefix", stream |-> JunkStream]

\* fc::lzma_decompress: throws on bytes that are no lzma stream
lzma_decompress(bytes) == [ok |-> bytes.fmt = "lzma", stream |-> bytes.stream]

\* unpack losing the last pair of the vector
unpackWithoutLast(stream) ==
    [ok |-> stream.fmt = "packed",
     files |-> SubSeq(stream.files, 1, Len(stream.files) - 1)]

\* fc::raw::unpack into vector<pair<string, vector<char>>>: throws on a malformed stream
unpack(stream) == [ok |-> stream.fmt = "packed", files |-> stream.files]

\* the loop of lines 1027-1028 giving the map away after its first pair
WebInterfaceMapOfFirst(files) ==
    [p \in {files[i][1] : i \in {j \in 1..Len(files) : j = 1}} |-> files[1][2]]

\* the loop filling webInterfaceMap: a later pair of a path replaces an earlier one
WebInterfaceMap(files) ==
    [p \in {files[i][1] : i \in 1..Len(files)} |->
        LET last == CHOOSE i \in 1..Len(files) :
                        /\ files[i][1] = p
                        /\ \A j \in 1..Len(files) : files[j][1] = p => j <= i
        IN files[last][2]]

EmptyWebPackage == WebInterfaceMap(<<>>)

\* verifyUpdateSignature counting the signatures of trusted keys, not the keys
verifyCountingSignatures(updatePackage, desc) ==
    LET hash == Sha256(updatePackage, desc)
        matches == {s \in desc.signatures :
                        RecoverAddress(s, hash) \in WEB_UPDATES_SIGNING_KEYS}
    IN /\ desc.timestamp >= BuildTimestamp
       /\ Cardinality(matches) >= WEB_UPDATES_SIGNATURE_REQUIREMENT

\* verifyUpdateSignature without the timestamp test of lines 803-806
verifyIgnoringTimestamp(updatePackage, desc) ==
    LET hash == Sha256(updatePackage, desc)
    IN Cardinality(WEB_UPDATES_SIGNING_KEYS
                    \cap {RecoverAddress(s, hash) : s \in desc.signatures})
            >= WEB_UPDATES_SIGNATURE_REQUIREMENT

(***************************************************************************)
(* MainWindow::verifyUpdateSignature (src/MainWindow.cpp:796), with the    *)
(* descriptor it reads, _webUpdateDescription, as its second argument.     *)
(***************************************************************************)
verifyUpdateSignature(updatePackage, desc) ==
    LET hash == Sha256(updatePackage, desc)
        \* authorized_signers after the loop erased every recovered address
        authorized_signers ==
            WEB_UPDATES_SIGNING_KEYS \ {RecoverAddress(s, hash) : s \in desc.signatures}
    IN IF \/ Cardinality(desc.signatures) < WEB_UPDATES_SIGNATURE_REQUIREMENT
          \/ Cardinality(WEB_UPDATES_SIGNING_KEYS) < WEB_UPDATES_SIGNATURE_REQUIREMENT
       THEN FALSE
       ELSE IF desc.timestamp < BuildTimestamp
       THEN FALSE
       ELSE Cardinality(WEB_UPDATES_SIGNING_KEYS) - Cardinality(authorized_signers)
                >= WEB_UPDATES_SIGNATURE_REQUIREMENT

(***************************************************************************)
(* std::set<UpdateDetails> as the ascending sequence of its elements.      *)
(***************************************************************************)
\* std::set::lower_bound: the position of the first element not less than key,
\* Len + 1 (end()) when there is none
lower_bound(updates, key) ==
    LET notLess == {i \in 1..Len(updates) : ~Less(updates[i], key)}
    IN IF notLess = {} THEN Len(updates) + 1
       ELSE CHOOSE i \in notLess : \A j \in notLess : i <= j

\* std::set::insert: an element equivalent to one already held is dropped
SetInsert(updates, ud) ==
    IF \E i \in 1..Len(updates) : ~Less(updates[i], ud) /\ ~Less(ud, updates[i])
    THEN updates
    ELSE LET k == lower_bound(updates, ud)
         IN SubSeq(updates, 1, k - 1) \o <<ud>> \o SubSeq(updates, k, Len(updates))

\* fc::json::from_string(...).as<WebUpdateManifest>() on a well-formed body:
\* the entries of the JSON array are inserted into manifest.updates in order
RECURSIVE ParseManifest(_)
ParseManifest(body) ==
    IF body = <<>> THEN <<>>
    ELSE SetInsert(ParseManifest(SubSeq(body, 1, Len(body) - 1)), body[Len(body)])

(***************************************************************************)
(* The selection of checkWebUpdates' manifest handler                      *)
(* (src/MainWindow.cpp:886-905).                                           *)
(***************************************************************************)
\* the probe: a default UpdateDetails with major, fork and minor + 1 (uint8_t)
Probe(major, fork, minor) ==
    [DefaultUpdateDetails EXCEPT !.majorVersion = major, !.forkVersion = fork,
                                 !.minorVersion = (minor + 1) % 256]

\* Applicable without the test of the minor version
ApplicableInAnyMinor(update, major, fork, minor, patch) ==
    ~ \/ update.majorVersion # major
      \/ update.forkVersion # fork
      \/ update.patchVersion <= patch
      \/ Cardinality(update.signatures) < WEB_UPDATES_SIGNATURE_REQUIREMENT

\* Applicable with "<" for the "<=" of the patch test
ApplicableFromSamePatch(update, major, fork, minor, patch) ==
    ~ \/ update.majorVersion # major
      \/ update.forkVersion # fork
      \/ update.minorVersion # minor
      \/ update.patchVersion < patch
      \/ Cardinality(update.signatures) < WEB_UPDATES_SIGNATURE_REQUIREMENT

\* the test of lines 899-901, negated: the candidate is taken
Applicable(update, major, fork, minor, patch) ==
    ~ \/ update.majorVersion # major
      \/ update.forkVersion # fork
      \/ update.minorVersion # minor
      \/ update.patchVersion <= patch
      \/ Cardinality(update.signatures) < WEB_UPDATES_SIGNATURE_REQUIREMENT

NoUpdate == [found |-> FALSE, update |-> DefaultUpdateDetails]

\* SelectUpdate without the "--itr" of line 897
SelectWithoutStepBack(updates, major, fork, minor, patch) ==
    LET itr == lower_bound(updates, Probe(major, fork, minor))
    IN IF itr = 1 \/ itr > Len(updates) THEN NoUpdate
       ELSE IF Applicable(updates[itr], major, fork, minor, patch)
            THEN [found |-> TRUE, update |-> updates[itr]]
            ELSE NoUpdate

\* SelectUpdate without the test for begin() of lines 892-896
SelectWithoutBeginTest(updates, major, fork, minor, patch) ==
    LET itr == lower_bound(updates, Probe(major, fork, minor))
        at == IF itr = 1 THEN 1 ELSE itr - 1
    IN IF updates = <<>> THEN NoUpdate
       ELSE IF Applicable(updates[at], major, fork, minor, patch)
            THEN [found |-> TRUE, update |-> updates[at]]
            ELSE NoUpdate

SelectUpdate(updates, major, fork, minor, patch) ==
    LET itr == lower_bound(updates, Probe(major, fork, minor))
    IN IF itr = 1 THEN NoUpdate
       ELSE IF Applicable(updates[itr - 1], major, fork, minor, patch)
            THEN [found |-> TRUE, update |-> updates[itr - 1]]
            ELSE NoUpdate

(***************************************************************************)
(* What the network and the disk may hold: the package bytes, the signed   *)
(* descriptors and the manifest bodies the model draws its inputs from.    *)
(***************************************************************************)
PackageA == Lzma(Packed(<< <<"a.html", "bytes1">>, <<"b.js", "bytes2">> >>))
PackageB == Lzma(Packed(<< <<"a.html", "bytes3">> >>))
PackageBadPack == Lzma(JunkStream)
Packages == {PackageA, PackageB, PackageBadPack, JunkBytes}

\* a descriptor carrying, for every <<key, nonce>> of signers, that key's
\* signature over `package` and the descriptor's signable string
Signed(major, fork, minor, patch, ts, signers, package) ==
    LET ud == UpdateDetails(major, fork, minor, patch, {}, ts)
    IN [ud EXCEPT !.signatures =
            {Signature(s[1], s[2], Sha256(package, ud)) : s \in signers}]

TwoKeys == {<<"key1", 1>>, <<"key2", 1>>}

\* The descriptors of the update path: two good patches of the 0.4.16 line,
\* one older than the build, one of the 0.4.17 line, and two whose signed
\* bytes do not decompress or do not unpack.
Updates ==
    { Signed(0, 4, 16, 98, 3, TwoKeys, PackageA),
      Signed(0, 4, 16, 99, 3, TwoKeys, PackageB),
      Signed(0, 4, 16, 98, 1, TwoKeys, PackageA),
      Signed(0, 4, 17, 98, 3, TwoKeys, PackageA),
      Signed(0, 4, 16, 99, 3, TwoKeys, JunkBytes),
      Signed(0, 4, 16, 99, 3, TwoKeys, PackageBadPack) }

\* sequences of at most n elements of S
RECURSIVE SeqsUpTo(_, _)
SeqsUpTo(S, n) ==
    IF n = 0 THEN {<<>>}
    ELSE LET shorter == SeqsUpTo(S, n - 1)
         IN shorter \cup {Append(q, x) : q \in shorter, x \in S}

\* the bodies a manifest request may be answered with: a JSON array of
\* entries, or bytes that do not parse as a WebUpdateManifest
ManifestBodies(S) ==
    {[wellFormed |-> TRUE, entries |-> q] : q \in SeqsUpTo(S, MaxManifest)}
        \cup {[wellFormed |-> FALSE, entries |-> <<>>]}

\* the versions the running build may have
ClientVersions == {<<0, 4, 16, 97>>}

(***************************************************************************)
(* State helpers.                                                          *)
(***************************************************************************)
RequestKinds == {"manifest", "package"} \X {"menu", "timer"}

Add(f, k, n) == [f EXCEPT ![k] = @ + n]

\* checkWebUpdates runs that have not ended: awaiting a reply or their dialog
RunsAlive ==
    inflight[<<"manifest", "menu">>] + inflight[<<"manifest", "timer">>]
        + inflight[<<"package", "menu">>] + inflight[<<"package", "timer">>]
        + Len(dialogs)

NoReply == [kind |-> "none"]

Init ==
    /\ \E v \in ClientVersions :
          /\ majorVersion = v[1]
          /\ forkVersion = v[2]
          /\ minorVersion = v[3]
          /\ patchVersion = v[4]
    /\ webUpdateDescription = DefaultUpdateDetails
    /\ webJson \in {{}} \cup {{d} : d \in Updates}
    /\ webDat \in {{}} \cup {{p} : p \in Packages}
    /\ webPackage = EmptyWebPackage
    /\ activeSource = {}
    /\ inflight = [k \in RequestKinds |-> 0]
    /\ dialogs = <<>>
    /\ updateCheckerActive = TRUE
    /\ pendingLoads = 0
    /\ started = FALSE
    /\ reply = NoReply
    /\ walletUnlocked = FALSE
    /\ installing = {}
    /\ crashPoint = "none"
    /\ effects = <<>>
    /\ visible = FALSE
    /\ deferredUrl = <<>>
    /\ startup = "constructed"

(***************************************************************************)
(* MainWindow::loadWebUpdates (src/MainWindow.cpp:977-1036).               *)
(***************************************************************************)
\* LoadRejects with the check of line 996 left out
LoadRejectsNothing(updatePackage, desc) == FALSE

\* line 996: the files on disk are refused
LoadRejects(updatePackage, desc) == ~verifyUpdateSignature(updatePackage, desc)

\* RemoveRejectedFiles leaving web.dat in place
RemoveDescriptionOnly ==
    /\ webJson' = {}
    /\ UNCHANGED webDat

\* lines 998-999: dataDir.remove of both files
RemoveRejectedFiles ==
    /\ webJson' = {}
    /\ webDat' = {}

loadWebUpdates ==
    IF webJson = {} \/ webDat = {}
    THEN \* lines 980-987: a file is missing, return
         UNCHANGED <<webJson, webDat, webUpdateDescription, webPackage, activeSource,
                     patchVersion, walletUnlocked>>
    ELSE LET desc == CHOOSE d \in webJson : TRUE
             updatePackage == CHOOSE b \in webDat : TRUE
             decompressedStream == lzma_decompress(updatePackage)
             deserializedPackage == unpack(decompressedStream.stream)
         IN /\ webUpdateDescription' = desc
            /\ IF LoadRejects(updatePackage, desc)
               THEN \* lines 996-1001: remove both files, return
                    /\ RemoveRejectedFiles
                    /\ UNCHANGED <<webPackage, activeSource, patchVersion, walletUnlocked>>
               ELSE /\ UNCHANGED <<webJson, webDat>>
                    /\ IF ~decompressedStream.ok \/ ~deserializedPackage.ok
                       THEN \* lines 1011-1013, 1021-1023: log, return
                            UNCHANGED <<webPackage, activeSource, patchVersion,
                                        walletUnlocked>>
                       ELSE \* lines 1026-1035: build the map, lock, set_web_package
                            /\ walletUnlocked' = FALSE
                            /\ webPackage' = WebInterfaceMap(deserializedPackage.files)
                            /\ activeSource' = {[desc |-> desc, bytes |-> updatePackage]}
                            /\ patchVersion' = desc.patchVersion

\* BitSharesApp::run calls loadWebUpdates once, before the event loop runs
StartupLoad ==
    /\ ~started
    /\ started' = TRUE
    /\ crashPoint' = "none"
    /\ loadWebUpdates
    /\ UNCHANGED <<visible, deferredUrl, startup>>
    /\ UNCHANGED <<majorVersion, forkVersion, minorVersion, inflight, dialogs,
                   updateCheckerActive, pendingLoads, reply, installing, effects>>

\* the call queued by QTimer::singleShot(0, this, SLOT(loadWebUpdates()))
QueuedLoad ==
    /\ started
    /\ installing = {}
    /\ pendingLoads > 0
    /\ pendingLoads' = pendingLoads - 1
    /\ loadWebUpdates
    /\ UNCHANGED <<visible, deferredUrl, startup>>
    /\ UNCHANGED <<majorVersion, forkVersion, minorVersion, inflight, dialogs,
                   updateCheckerActive, started, reply, installing, crashPoint, effects>>

(***************************************************************************)
(* MainWindow::checkWebUpdates (src/MainWindow.cpp:840-953).               *)
(***************************************************************************)
\* lines 859-874: purge a lone file, request the manifest
checkWebUpdates(trigger) ==
    /\ RunsAlive < MaxRuns
    /\ IF (webJson = {}) # (webDat = {})
       THEN webJson' = {} /\ webDat' = {}
       ELSE UNCHANGED <<webJson, webDat>>
    /\ inflight' = Add(inflight, <<"manifest", trigger>>, 1)

\* File > Check for Updates; the menu is out of reach under a window-modal dialog
MenuCheckForUpdates ==
    /\ started
    /\ installing = {}
    /\ dialogs = <<>>
    /\ checkWebUpdates("menu")
    /\ UNCHANGED <<visible, deferredUrl, startup>>
    /\ UNCHANGED <<majorVersion, forkVersion, minorVersion, patchVersion,
                   webUpdateDescription, webPackage, activeSource, dialogs,
                   updateCheckerActive, pendingLoads, started, reply, walletUnlocked,
                   installing, crashPoint, effects>>

\* _updateChecker's timeout (single shot): checkWebUpdates(false, restart the timer)
UpdateCheckerTimeout ==
    /\ started
    /\ installing = {}
    /\ updateCheckerActive
    /\ updateCheckerActive' = FALSE
    /\ checkWebUpdates("timer")
    /\ UNCHANGED <<visible, deferredUrl, startup>>
    /\ UNCHANGED <<majorVersion, forkVersion, minorVersion, patchVersion,
                   webUpdateDescription, webPackage, activeSource, dialogs,
                   pendingLoads, started, reply, walletUnlocked, installing,
                   crashPoint, effects>>

\* line 951: only the timer's run has a finishedCheckCallback; it restarts the timer
finishedCheckCallback(trigger) ==
    updateCheckerActive' = IF trigger = "timer" THEN TRUE ELSE updateCheckerActive

\* lines 879-905: what the handler makes of a reply body: a parse error, or
\* the selection among the parsed entries
ManifestResult(body, major, fork, minor, patch) ==
    IF ~body.wellFormed
    THEN [error |-> TRUE, selected |-> NoUpdate]
    ELSE [error |-> FALSE,
          selected |-> SelectUpdate(ParseManifest(body.entries), major, fork, minor, patch)]

\* ManifestResult over every body the update path's network may send, for
\* every version the client may be at (tabulated once)
PatchCodes == {97, 98, 99}
ManifestResults ==
    [v \in {<<c[1], c[2], c[3], p>> : c \in ClientVersions, p \in PatchCodes} |->
        {ManifestResult(body, v[1], v[2], v[3], v[4]) : body \in ManifestBodies(Updates)}]

\* lines 878-913: the reply to the manifest request
ManifestReply(trigger, result) ==
    /\ started
    /\ installing = {}
    /\ inflight[<<"manifest", trigger>>] > 0
    /\ IF result.error
       THEN \* from_string/as<> throws: caught at 909, falls through to 951
            /\ inflight' = Add(inflight, <<"manifest", trigger>>, -1)
            /\ finishedCheckCallback(trigger)
            /\ UNCHANGED webUpdateDescription
       ELSE IF ~result.selected.found
       THEN \* lines 892-896, 899-905: return, the callback is not called
            /\ inflight' = Add(inflight, <<"manifest", trigger>>, -1)
            /\ UNCHANGED <<webUpdateDescription, updateCheckerActive>>
       ELSE \* lines 907-908, then 951
            /\ webUpdateDescription' = result.selected.update
            /\ inflight' = Add(Add(inflight, <<"manifest", trigger>>, -1),
                               <<"package", trigger>>, 1)
            /\ finishedCheckCallback(trigger)
    /\ UNCHANGED <<visible, deferredUrl, startup>>
    /\ UNCHANGED <<majorVersion, forkVersion, minorVersion, patchVersion, webJson, webDat,
                   webPackage, activeSource, dialogs, pendingLoads, started, reply,
                   walletUnlocked, installing, crashPoint, effects>>

\* the package handler going on to the writes as soon as the package verifies
PackageReplyInstalling(trigger, package) ==
    /\ started
    /\ installing = {}
    /\ inflight[<<"package", trigger>>] > 0
    /\ inflight' = Add(inflight, <<"package", trigger>>, -1)
    /\ IF ~verifyUpdateSignature(package, webUpdateDescription)
       THEN UNCHANGED installing
       ELSE /\ pendingLoads < MaxPendingLoads
            /\ installing' = {[trigger |-> trigger, package |-> package, at |-> "write"]}
    /\ UNCHANGED <<visible, deferredUrl, startup>>
    /\ UNCHANGED <<majorVersion, forkVersion, minorVersion, patchVersion,
                   webUpdateDescription, webJson, webDat, webPackage, activeSource,
                   dialogs, updateCheckerActive, pendingLoads, started, reply,
                   walletUnlocked, crashPoint, effects>>

\* lines 915-936: the reply to the package request, up to updateDialog.exec()
PackageReply(trigger, package) ==
    /\ started
    /\ installing = {}
    /\ inflight[<<"package", trigger>>] > 0
    /\ inflight' = Add(inflight, <<"package", trigger>>, -1)
    /\ IF ~verifyUpdateSignature(package, webUpdateDescription)
       THEN UNCHANGED dialogs
       ELSE dialogs' = Append(dialogs, [trigger |-> trigger, package |-> package])
    /\ UNCHANGED <<visible, deferredUrl, startup>>
    /\ UNCHANGED <<majorVersion, forkVersion, minorVersion, patchVersion,
                   webUpdateDescription, webJson, webDat, webPackage, activeSource,
                   updateCheckerActive, pendingLoads, started, reply, walletUnlocked,
                   installing, crashPoint, effects>>

\* lines 936-941: updateDialog.exec() returns in the innermost event loop; on
\* Yes the handler goes on to the writes of lines 942-945
UpdateDialogAnswer(yes) ==
    /\ dialogs # <<>>
    /\ installing = {}
    /\ LET frame == dialogs[Len(dialogs)]
       IN /\ dialogs' = SubSeq(dialogs, 1, Len(dialogs) - 1)
          /\ IF ~yes
             THEN UNCHANGED installing
             ELSE /\ pendingLoads < MaxPendingLoads
                  /\ installing' = {[trigger |-> frame.trigger, package |-> frame.package,
                                     at |-> "write"]}
    /\ UNCHANGED <<visible, deferredUrl, startup>>
    /\ UNCHANGED <<majorVersion, forkVersion, minorVersion, patchVersion,
                   webUpdateDescription, webJson, webDat, webPackage, activeSource,
                   inflight, updateCheckerActive, pendingLoads, started, reply,
                   walletUnlocked, crashPoint, effects>>

\* lines 942-944: QFile::open(WriteOnly) creates or empties web.dat and
\* QFile::write puts the bytes into the file's write buffer; the file itself
\* holds all of them by now (flushed) or a strict prefix of them
InstallWritePackage(flushed) ==
    /\ \E run \in installing :
          /\ run.at = "write"
          /\ webDat' = {IF flushed THEN run.package ELSE PrefixOf(run.package)}
          /\ installing' = {[run EXCEPT !.at = "save"]}
    /\ UNCHANGED <<visible, deferredUrl, startup>>
    /\ UNCHANGED <<majorVersion, forkVersion, minorVersion, patchVersion,
                   webUpdateDescription, webJson, webPackage, activeSource, inflight,
                   dialogs, updateCheckerActive, pendingLoads, started, reply,
                   walletUnlocked, crashPoint, effects>>

\* line 945: fc::json::save_to_file writes the descriptor as it is now.
\* Handlers of other runs have run inside exec() and may have changed it.
InstallSaveDescription ==
    /\ \E run \in installing :
          /\ run.at = "save"
          /\ webJson' = {webUpdateDescription}
          /\ installing' = {[run EXCEPT !.at = "finish"]}
    /\ UNCHANGED <<visible, deferredUrl, startup>>
    /\ UNCHANGED <<majorVersion, forkVersion, minorVersion, patchVersion,
                   webUpdateDescription, webDat, webPackage, activeSource, inflight,
                   dialogs, updateCheckerActive, pendingLoads, started, reply,
                   walletUnlocked, crashPoint, effects>>

\* lines 946-951: queue loadWebUpdates; the QFile goes out of scope, which
\* flushes and closes web.dat; the callback
InstallFinish ==
    /\ \E run \in installing :
          /\ run.at = "finish"
          /\ webDat' = {run.package}
          /\ pendingLoads' = pendingLoads + 1
          /\ finishedCheckCallback(run.trigger)
          /\ installing' = {}
    /\ UNCHANGED <<visible, deferredUrl, startup>>
    /\ UNCHANGED <<majorVersion, forkVersion, minorVersion, patchVersion,
                   webUpdateDescription, webJson, webPackage, activeSource, inflight,
                   dialogs, started, reply, walletUnlocked, crashPoint, effects>>

(***************************************************************************)
(* MainWindow::removeWebUpdates (src/MainWindow.cpp:955-975).  Its dialog  *)
(* opens from the menu, so over no other dialog, and what it does follows  *)
(* the answer at once.                                                     *)
(***************************************************************************)
\* removeWebUpdates leaving web.dat in place
removeLeavingPackage(yes) ==
    /\ started
    /\ installing = {}
    /\ dialogs = <<>>
    /\ IF yes
       THEN /\ webJson' = {}
            /\ webPackage' = EmptyWebPackage
            /\ activeSource' = {}
            /\ walletUnlocked' = FALSE
            /\ UNCHANGED webDat
       ELSE UNCHANGED <<webJson, webDat, webPackage, activeSource, walletUnlocked>>
    /\ UNCHANGED <<visible, deferredUrl, startup>>
    /\ UNCHANGED <<majorVersion, forkVersion, minorVersion, patchVersion,
                   webUpdateDescription, inflight, dialogs, updateCheckerActive,
                   pendingLoads, started, reply, installing, crashPoint, effects>>

removeWebUpdates(yes) ==
    /\ started
    /\ installing = {}
    /\ dialogs = <<>>
    /\ IF yes
       THEN /\ webJson' = {}
            /\ webDat' = {}
            /\ webPackage' = EmptyWebPackage
            /\ activeSource' = {}
            /\ walletUnlocked' = FALSE
       ELSE UNCHANGED <<webJson, webDat, webPackage, activeSource, walletUnlocked>>
    /\ UNCHANGED <<visible, deferredUrl, startup>>
    /\ UNCHANGED <<majorVersion, forkVersion, minorVersion, patchVersion,
                   webUpdateDescription, inflight, dialogs, updateCheckerActive,
                   pendingLoads, started, reply, installing, crashPoint, effects>>

(***************************************************************************)
(* The wallet and the process.                                             *)
(***************************************************************************)
\* MainWindow::walletIsUnlocked, line 474: the user's password unlocks the wallet
UnlockWallet ==
    /\ started
    /\ installing = {}
    /\ dialogs = <<>>
    /\ ~walletUnlocked
    /\ walletUnlocked' = TRUE
    /\ UNCHANGED <<visible, deferredUrl, startup>>
    /\ UNCHANGED <<majorVersion, forkVersion, minorVersion, patchVersion,
                   webUpdateDescription, webJson, webDat, webPackage, activeSource,
                   inflight, dialogs, updateCheckerActive, pendingLoads, started, reply,
                   installing, crashPoint, effects>>

\* The process ends, at any point, also inside the writes of an install; the
\* next process starts from its constructors (MainWindow.cpp:47-80) with the
\* files as they are.  crashPoint keeps where an install was cut.
Terminate ==
    /\ started
    /\ crashPoint' = IF installing # {} THEN (CHOOSE run \in installing : TRUE).at
                     ELSE IF pendingLoads > 0 THEN "queued"
                     ELSE "none"
    /\ \E v \in ClientVersions :
          /\ v[1] = majorVersion /\ v[2] = forkVersion /\ v[3] = minorVersion
          /\ patchVersion' = v[4]
    /\ webUpdateDescription' = DefaultUpdateDetails
    /\ webPackage' = EmptyWebPackage
    /\ activeSource' = {}
    /\ inflight' = [k \in RequestKinds |-> 0]
    /\ dialogs' = <<>>
    /\ updateCheckerActive' = TRUE
    /\ pendingLoads' = 0
    /\ started' = FALSE
    /\ walletUnlocked' = FALSE
    /\ installing' = {}
    /\ visible' = FALSE
    /\ deferredUrl' = <<>>
    /\ startup' = "constructed"
    /\ UNCHANGED <<majorVersion, forkVersion, minorVersion, webJson, webDat, reply,
                   effects>>

Next ==
    \/ StartupLoad
    \/ QueuedLoad
    \/ MenuCheckForUpdates
    \/ UpdateCheckerTimeout
    \/ \E trigger \in {"menu", "timer"} :
          \E result \in ManifestResults[<<majorVersion, forkVersion, minorVersion,
                                          patchVersion>>] :
             ManifestReply(trigger, result)
    \/ \E trigger \in {"menu", "timer"}, package \in Packages :
          PackageReply(trigger, package)
    \/ \E yes \in BOOLEAN : UpdateDialogAnswer(yes)
    \/ \E flushed \in BOOLEAN : InstallWritePackage(flushed)
    \/ InstallSaveDescription
    \/ InstallFinish
    \/ \E yes \in BOOLEAN : removeWebUpdates(yes)
    \/ Terminate

Spec == Init /\ [][Next]_vars

\* What the event loop and the network guarantee: a timer that is running
\* times out, every request is answered (QNetworkAccessManager::finished is
\* emitted for a failed request too), a queued call is made, the user answers
\* an open dialog, and a handler that has begun its writes goes on.  Nothing
\* obliges the user to open the File menu or the process to end.
Fairness ==
    /\ WF_vars(StartupLoad)
    /\ WF_vars(QueuedLoad)
    /\ WF_vars(UpdateCheckerTimeout)
    /\ WF_vars(\E trigger \in {"menu", "timer"} :
                  \E result \in ManifestResults[<<majorVersion, forkVersion, minorVersion,
                                                  patchVersion>>] :
                     ManifestReply(trigger, result))
    /\ WF_vars(\E trigger \in {"menu", "timer"}, package \in Packages :
                  PackageReply(trigger, package))
    /\ WF_vars(\E yes \in BOOLEAN : UpdateDialogAnswer(yes))
    /\ WF_vars(\E flushed \in BOOLEAN : InstallWritePackage(flushed))
    /\ WF_vars(InstallSaveDescription)
    /\ WF_vars(InstallFinish)

SpecLive == Init /\ [][Next]_vars /\ Fairness

(***************************************************************************)
(* One handler run on one reply.  The client, at any of a wider range of   *)
(* versions, awaits the reply to one request of File > Check for Updates;  *)
(* the reply is drawn from a wider range of manifests (for the manifest    *)
(* request) or of descriptors and bytes (for the package request), and the *)
(* handler of checkWebUpdates runs on it once.                             *)
(***************************************************************************)
ReplyClientVersions ==
    {<<0, 4, 16, 97>>, <<0, 4, 16, 98>>, <<0, 4, 17, 97>>, <<0, 4, 255, 97>>}

ReplyEntryVersions ==
    {<<0, 3, 9, 97>>, <<0, 4, 0, 65>>, <<0, 4, 16, 97>>, <<0, 4, 16, 98>>,
     <<0, 4, 16, 99>>, <<0, 4, 17, 65>>, <<0, 4, 17, 98>>, <<0, 4, 255, 98>>,
     <<0, 5, 0, 97>>}

ReplyEntries ==
    {Signed(v[1], v[2], v[3], v[4], 3, signers, PackageA) :
        v \in ReplyEntryVersions, signers \in {TwoKeys, {<<"key1", 1>>}}}

\* the signatures a descriptor of PackageA may carry: of trusted keys (key1
\* twice), of an untrusted key, in any combination
SignerPool ==
    {<<"key1", 1>>, <<"key1", 2>>, <<"key2", 1>>, <<"key3", 1>>, <<"mallory", 1>>}

ReplyDescriptions ==
    {Signed(0, 4, 16, 98, ts, signers, PackageA) :
        ts \in {BuildTimestamp - 1, BuildTimestamp, BuildTimestamp + 1},
        signers \in SUBSET SignerPool}

InitReply ==
    /\ webJson = {}
    /\ webDat = {}
    /\ webPackage = EmptyWebPackage
    /\ activeSource = {}
    /\ dialogs = <<>>
    /\ updateCheckerActive = TRUE
    /\ pendingLoads = 0
    /\ started = TRUE
    /\ walletUnlocked = FALSE
    /\ installing = {}
    /\ crashPoint = "none"
    /\ effects = <<>>
    /\ \/ /\ \E v \in ReplyClientVersions :
                /\ majorVersion = v[1]
                /\ forkVersion = v[2]
                /\ minorVersion = v[3]
                /\ patchVersion = v[4]
          /\ webUpdateDescription = DefaultUpdateDetails
          /\ inflight = [k \in RequestKinds |->
                            IF k = <<"manifest", "menu">> THEN 1 ELSE 0]
          /\ \E body \in ManifestBodies(ReplyEntries) :
                reply = [kind |-> "manifest", body |-> body]
       \/ /\ majorVersion = 0
          /\ forkVersion = 4
          /\ minorVersion = 16
          /\ patchVersion = 97
          /\ webUpdateDescription \in ReplyDescriptions
          /\ inflight = [k \in RequestKinds |->
                            IF k = <<"package", "menu">> THEN 1 ELSE 0]
          /\ \E package \in {PackageA, PackageB} :
                reply = [kind |-> "package", body |-> package]
    /\ visible = FALSE
    /\ deferredUrl = <<>>
    /\ startup = "constructed"

HandleManifestReply ==
    /\ reply.kind = "manifest"
    /\ ManifestReply("menu", ManifestResult(reply.body, majorVersion, forkVersion,
                                            minorVersion, patchVersion))

HandlePackageReply ==
    /\ reply.kind = "package"
    /\ PackageReply("menu", reply.body)

NextReply ==
    \/ HandleManifestReply
    \/ HandlePackageReply

SpecReply == InitReply /\ [][NextReply]_vars

\* the handler has run on the reply
Handled == inflight[<<reply.kind, "menu">>] = 0

\* the handler of the manifest reply requested a package
PackageRequested == inflight[<<"package", "menu">>] = 1

(***************************************************************************)
(* The wallet.  The user has unlocked the wallet; a loadWebUpdates call is *)
(* queued, over any files on disk and any bundle in memory that the update *)
(* path can leave behind, and File > Remove Updates may be chosen, any     *)
(* number of times; the user unlocks the wallet again when it was locked.  *)
(***************************************************************************)
\* the (descriptor, bytes) pairs loadWebUpdates makes active
LoadablePairs ==
    {pair \in [desc : Updates, bytes : Packages] :
        /\ verifyUpdateSignature(pair.bytes, pair.desc)
        /\ lzma_decompress(pair.bytes).ok
        /\ unpack(lzma_decompress(pair.bytes).stream).ok}

InitLoad ==
    /\ majorVersion = 0
    /\ forkVersion = 4
    /\ minorVersion = 16
    /\ webUpdateDescription \in Updates \cup {DefaultUpdateDetails}
    /\ webJson \in {{}} \cup {{d} : d \in Updates}
    /\ webDat \in {{}} \cup {{p} : p \in Packages}
    /\ \/ /\ activeSource = {}
          /\ webPackage = EmptyWebPackage
          /\ patchVersion \in PatchCodes
       \/ \E pair \in LoadablePairs :
             /\ activeSource = {pair}
             /\ webPackage = WebInterfaceMap(unpack(lzma_decompress(pair.bytes).stream).files)
             /\ patchVersion = pair.desc.patchVersion
    /\ inflight = [k \in RequestKinds |-> 0]
    /\ dialogs = <<>>
    /\ updateCheckerActive = TRUE
    /\ pendingLoads = 1
    /\ started = TRUE
    /\ reply = NoReply
    /\ walletUnlocked = TRUE
    /\ installing = {}
    /\ crashPoint = "none"
    /\ effects = <<>>
    /\ visible = FALSE
    /\ deferredUrl = <<>>
    /\ startup = "constructed"

NextLoad ==
    \/ QueuedLoad
    \/ \E yes \in BOOLEAN : removeWebUpdates(yes)
    \/ UnlockWallet

SpecLoad == InitLoad /\ [][NextLoad]_vars

(***************************************************************************)
(* MainWindow::processCustomUrl (src/MainWindow.cpp:141-207).  A string is *)
(* the sequence of its delimiter characters and of the words between them; *)
(* a word is a run of characters none of which is a delimiter.             *)
(***************************************************************************)
Delimiters == {":", "/", "#", "?", "@"}

\* the scheme the build registers
CUSTOM_URL_SCHEME == <<"xts">>

\* *clientWrapper()->get_httpd_endpoint(): address and port of the local service
HttpdEndpoint == <<"127.0.0.1", ":", "9989">>

\* QString::toLower, on the words that have upper-case letters
LowerCase == ("XTS" :> "xts") @@ ("Home" :> "home") @@ ("Accounts" :> "accounts")

toLower(str) ==
    [i \in 1..Len(str) |-> IF str[i] \in DOMAIN LowerCase THEN LowerCase[str[i]] ELSE str[i]]

\* QString::indexOf: the position, from 0, of the first ch, or -1
indexOf(str, ch) ==
    IF \E i \in 1..Len(str) : str[i] = ch
    THEN (CHOOSE i \in 1..Len(str) :
              /\ str[i] = ch
              /\ \A j \in 1..(i - 1) : str[j] # ch) - 1
    ELSE -1

\* QString::left: the whole string when n is negative or not less than the size
left(str, n) == IF n < 0 \/ n >= Len(str) THEN str ELSE SubSeq(str, 1, n)

\* QString::mid(pos)
mid(str, pos) == SubSeq(str, pos + 1, Len(str))

\* line 150: while( url.startsWith('/') ) url.remove(0, 1)
RECURSIVE removeLeadingSlashes(_)
removeLeadingSlashes(str) ==
    IF str # <<>> /\ Head(str) = "/" THEN removeLeadingSlashes(Tail(str)) ELSE str

\* QString::split('/', QString::SkipEmptyParts)
RECURSIVE split(_)
split(str) ==
    IF str = <<>> THEN <<>>
    ELSE IF Head(str) = "/" THEN split(Tail(str))
    ELSE LET n == indexOf(str, "/")
         IN <<left(str, n)>> \o (IF n < 0 THEN <<>> ELSE split(mid(str, n + 1)))

\* QString::toInt(&ok): ok only if the whole string is a number
Numerals == ("42" :> 42) @@ ("042" :> 42) @@ ("7" :> 7)

toInt(str) ==
    IF Len(str) = 1 /\ str[1] \in DOMAIN Numerals
    THEN [ok |-> TRUE, value |-> Numerals[str[1]]]
    ELSE [ok |-> FALSE, value |-> 0]

\* QString::number
number(n) == <<ToString(n)>>

\* what processCustomUrl does, as the view and the log see it
Log(level, text) == [op |-> "log", arg |-> <<level, text>>]
Warning(title) == [op |-> "warning", arg |-> <<title>>]
Load(url) == [op |-> "load", arg |-> url]
SetFocus == [op |-> "setFocus", arg |-> <<>>]

\* BaseUrl with the endpoint left out
BaseUrlWithoutEndpoint == <<"http", ":", "/", "/", "/", "#">>

\* line 162: "http://" + endpoint + "/#"
BaseUrl == <<"http", ":", "/", "/">> \o HttpdEndpoint \o <<"/", "#">>

\* the pages of lines 165-166
SimplePages ==
    {"home", "delegates", "notes", "directory", "newcontact", "preferences",
     "console", "help"}

\* Navigation passing a first component it does not know through as a path
NavigationPassThrough(components) ==
    LET str == toLower(components[1])
    IN [load |-> TRUE, urlStr |-> BaseUrl \o <<"/">> \o str, warnings |-> <<>>]

\* lines 163-197: the URL built from the components; load is FALSE for the
\* return of line 197
Navigation(components) ==
    LET str == toLower(components[1])
    IN IF Len(str) = 1 /\ str[1] \in SimplePages
       THEN [load |-> TRUE, urlStr |-> BaseUrl \o <<"/">> \o str, warnings |-> <<>>]
       ELSE IF str = <<"accounts">>
       THEN [load |-> TRUE,
             urlStr |-> IF Len(components) = 1 THEN BaseUrl \o <<"/", "accounts">>
                        ELSE IF Len(components) = 2
                        THEN BaseUrl \o <<"/", "accounts", "/">> \o components[2]
                        ELSE BaseUrl,
             warnings |-> <<>>]
       ELSE IF str = <<"blocks">>
       THEN IF Len(components) = 1
            THEN [load |-> TRUE, urlStr |-> BaseUrl \o <<"/", "blocks">>,
                  warnings |-> <<>>]
            ELSE IF Len(components) = 2
            THEN LET blockNumber == toInt(components[2])
                 IN IF blockNumber.ok
                    THEN [load |-> TRUE,
                          urlStr |-> BaseUrl \o <<"/", "blocks", "/">>
                                         \o number(blockNumber.value),
                          warnings |-> <<>>]
                    ELSE [load |-> TRUE, urlStr |-> BaseUrl,
                          warnings |-> <<Warning("Invalid Block Number")>>]
            ELSE [load |-> TRUE, urlStr |-> BaseUrl, warnings |-> <<>>]
       ELSE [load |-> FALSE, urlStr |-> BaseUrl, warnings |-> <<>>]

\* lines 141-207
processCustomUrl(url) ==
    IF toLower(left(url, indexOf(url, ":"))) # CUSTOM_URL_SCHEME
    THEN <<Log("elog", "Got URL of unknown scheme")>>
    ELSE LET components == split(removeLeadingSlashes(mid(url, indexOf(url, ":") + 1)))
         IN <<Log("ilog", "Processing custom URL request")>> \o
            IF components = <<>>
            THEN <<Log("elog", "Invalid URL has no contents!"), Warning("Invalid URL")>>
            ELSE LET nav == Navigation(components)
                 IN IF ~nav.load THEN <<>>
                    ELSE nav.warnings \o
                         <<Log("ilog", "Processing custom URL request for real url"),
                           Load(nav.urlStr), SetFocus>>

\* QUrl: the authority of a URL, between "//" and the next of / ? #
TakeUntil(str, stops) ==
    LET at == {i \in 1..Len(str) : str[i] \in stops}
    IN IF at = {} THEN str
       ELSE SubSeq(str, 1, (CHOOSE i \in at : \A j \in at : i <= j) - 1)

Authority(url) ==
    LET rest == mid(url, indexOf(url, ":") + 1)
    IN IF Len(rest) >= 2 /\ rest[1] = "/" /\ rest[2] = "/"
       THEN TakeUntil(SubSeq(rest, 3, Len(rest)), {"/", "?", "#"})
       ELSE <<>>

\* QUrl::host: the authority without its user info and its port
UrlHost(url) ==
    LET authority == Authority(url)
        at == {i \in 1..Len(authority) : authority[i] = "@"}
        hostPort == IF at = {} THEN authority
                    ELSE SubSeq(authority, (CHOOSE i \in at : \A j \in at : i >= j) + 1,
                                Len(authority))
    IN TakeUntil(hostPort, {":"})

(***************************************************************************)
(* One processCustomUrl call on one string.  The strings are a scheme part,*)
(* leading slashes and up to MaxComponents components from a pool, joined  *)
(* by single or double slashes, and the login, transfer and referral code  *)
(* links in full.                                                          *)
(***************************************************************************)
MaxComponents == 2

UrlSchemeParts == {<<"xts", ":">>, <<"XTS", ":">>, <<"http", ":">>, <<>>}

UrlLeadingSlashes == {<<>>, <<"/", "/">>}

UrlComponentPool ==
    {<<"home">>, <<"Home">>, <<"accounts">>, <<"Accounts">>, <<"blocks">>,
     <<"login">>, <<"transfer">>, <<"referral_code">>, <<"deleteallfunds">>,
     <<"#">>, <<"bob">>, <<"42">>, <<"042">>, <<"4x">>,
     <<"bob", "@", "evil.com">>, <<"evil.com", ":", "80">>,
     <<"@", "evil.com", "#">>, <<"?", "x">>}

RECURSIVE JoinComponents(_, _)
JoinComponents(components, separator) ==
    IF components = <<>> THEN <<>>
    ELSE IF Len(components) = 1 THEN components[1]
    ELSE components[1] \o separator \o JoinComponents(Tail(components), separator)

UrlExamples ==
    {<<"xts">>,
     <<"xts", ":", "login", "/", "XTS7serverOneTimeKey", "/", "serverSignature",
       "/", "example.com", "/", "return">>,
     <<"xts", ":", "transfer", "/", "bob", "/", "amount", "/", "42">>,
     <<"xts", ":", "referral_code", "/", "faucet", "/", "example.com", "/",
       "code", "/", "abc">>}

CustomUrls ==
    UrlExamples \cup
    {scheme \o slashes \o JoinComponents(components, separator) \o trailing :
        scheme \in UrlSchemeParts, slashes \in UrlLeadingSlashes,
        components \in SeqsUpTo(UrlComponentPool, MaxComponents),
        separator \in {<<"/">>, <<"/", "/">>}, trailing \in {<<>>, <<"/">>}}

InitUrl ==
    /\ majorVersion = 0
    /\ forkVersion = 4
    /\ minorVersion = 16
    /\ patchVersion = 97
    /\ webUpdateDescription = DefaultUpdateDetails
    /\ webJson = {}
    /\ webDat = {}
    /\ webPackage = EmptyWebPackage
    /\ activeSource = {}
    /\ inflight = [k \in RequestKinds |-> 0]
    /\ dialogs = <<>>
    /\ updateCheckerActive = TRUE
    /\ pendingLoads = 0
    /\ started = TRUE
    /\ walletUnlocked = FALSE
    /\ installing = {}
    /\ crashPoint = "none"
    /\ effects = <<>>
    /\ \E url \in CustomUrls : reply = [kind |-> "url", body |-> url]
    /\ visible = FALSE
    /\ deferredUrl = <<>>
    /\ startup = "constructed"

\* the window is given the string (File > Open URL, a FileOpen event, the
\* location bar, another instance) and processCustomUrl runs on it
ProcessCustomUrl ==
    /\ reply.kind = "url"
    /\ effects = <<>>
    /\ effects' = processCustomUrl(reply.body)
    /\ UNCHANGED <<visible, deferredUrl, startup>>
    /\ UNCHANGED <<majorVersion, forkVersion, minorVersion, patchVersion,
                   webUpdateDescription, webJson, webDat, webPackage, activeSource,
                   inflight, dialogs, updateCheckerActive, pendingLoads, started, reply,
                   walletUnlocked, installing, crashPoint>>

NextUrl == ProcessCustomUrl

SpecUrl == InitUrl /\ [][NextUrl]_vars

(***************************************************************************)
(* The login handshake: one MainWindow::doLogin call (lines 564-630) with  *)
(* getLoginUser (487-562).  Keys and signatures are words: a word parses   *)
(* as a public key or as a compact signature or it does not, a signature   *)
(* recovers to one account key, and the chain knows an account for that    *)
(* key or it does not.  The call is suspended inside the exec() of its     *)
(* confirmation or chooser dialog; the wallet may lock meanwhile (its      *)
(* unlock time runs out, or a queued loadWebUpdates runs).  A read of      *)
(* components[i] past the end of the list has no defined result: the       *)
(* process aborts or some word is read.  wallet_sign_hash is library code: *)
(* it returns a signature or throws, and it throws on a locked wallet.     *)
(***************************************************************************)
PublicKeyWords == {"XTS7serverOneTimeKey", "XTS7offCurveKey"}

SignatureWords == {"serverSignature", "strangerSignature"}

LoginWords == PublicKeyWords \cup SignatureWords \cup {"example.com", "return"}

\* fc::ecc::public_key(signature, digest), line 582
RecoverAccountKey(sig) ==
    IF sig = "serverSignature" THEN "serverAccountKey" ELSE "strangerAccountKey"

\* private_key::get_shared_secret, line 594: throws for a key off the curve
SharedSecretDerivable(key) == key = "XTS7serverOneTimeKey"

\* chain->get_account_record(serverKey), line 489
get_account_record(registered, serverKey) ==
    IF serverKey \in registered THEN {"example"} ELSE {}

Critical(title) == [op |-> "critical", arg |-> <<title>>]
Exec(dialog, accounts) == [op |-> "exec", arg |-> <<dialog, accounts>>]
ExecReturned(dialog, accepted, currentText) ==
    [op |-> "execReturned", arg |-> <<dialog, accepted, currentText>>]
WalletSignHash(account, unlocked) ==
    [op |-> "wallet_sign_hash", arg |-> <<account, unlocked>>]
OpenInExternalBrowser(url, clientName) ==
    [op |-> "open_in_external_browser", arg |-> <<url, clientName>>]
NavigateTo(path) == [op |-> "navigateTo", arg |-> path]
Aborted == [op |-> "abort", arg |-> <<>>]

\* components[i] (QList::operator[]): the element, or for i past the end an
\* abort or any word
OutOfRange == "<out of range>"
ReadComponent(components, i) ==
    IF i <= Len(components) THEN {components[i]}
    ELSE {OutOfRange} \cup LoginWords \cup {"junk"}

\* line 611: "http://" + components.mid(2).join('/')
RedirectUrl(components) ==
    <<"http", ":", "/", "/">> \o
    JoinComponents([i \in 1..(IF Len(components) > 2 THEN Len(components) - 2 ELSE 0)
                       |-> <<components[i + 2]>>], <<"/">>)

\* getLoginUser, lines 489-510: the server account is unknown
ServerAccountUnknown(headBlockAge) ==
    IF headBlockAge < 1 THEN <<Critical("Misconfigured Website")>>
    ELSE <<Warning("Out of Sync")>>

\* doLogin up to the dialog of getLoginUser (lines 568-559) for the words
\* read as components[0] and components[1]: what is done, and the dialog the
\* call is suspended in, if any
LoginUntilDialog(key, sig, in) ==
    IF key = OutOfRange
    THEN [effects |-> <<Aborted>>, dialog |-> <<>>]
    ELSE IF key \notin PublicKeyWords
    THEN [effects |-> <<Log("elog", "Unable to parse public key"), Warning("Invalid URL")>>,
          dialog |-> <<>>]
    ELSE IF sig = OutOfRange
    THEN [effects |-> <<Aborted>>, dialog |-> <<>>]
    ELSE IF sig \notin SignatureWords
    THEN [effects |-> <<Log("elog", "Unable to derive server account public key"),
                        Warning("Invalid URL")>>,
          dialog |-> <<>>]
    ELSE IF ~SharedSecretDerivable(key)
    THEN [effects |-> <<Log("elog", "Unable to derive shared secret"),
                        Warning("Invalid URL")>>,
          dialog |-> <<>>]
    ELSE IF get_account_record(in.registered, RecoverAccountKey(sig)) = {}
    THEN [effects |-> ServerAccountUnknown(in.headBlockAge), dialog |-> <<>>]
    ELSE IF Len(in.accounts) = 1
    THEN [effects |-> <<Exec("loginAuthBox", in.accounts)>>,
          dialog |-> <<[kind |-> "loginAuthBox", accounts |-> in.accounts, key |-> key]>>]
    ELSE IF Len(in.accounts) = 0
    THEN [effects |-> <<Warning("No Accounts Available"), NavigateTo("/create/account")>>,
          dialog |-> <<>>]
    ELSE [effects |-> <<Exec("userSelecterDialog", in.accounts)>>,
          dialog |-> <<[kind |-> "userSelecterDialog", accounts |-> in.accounts,
                        key |-> key]>>]

\* getLoginUser taking the first account whatever the user answered
getLoginUserFirstAccount(frame, accepted, current) == frame.accounts[1]

\* getLoginUser from the return of exec(), lines 530-533 and 559-561
getLoginUser(frame, accepted, current) ==
    IF frame.kind = "loginAuthBox"
    THEN IF accepted THEN frame.accounts[1] ELSE ""
    ELSE IF accepted THEN frame.accounts[current] ELSE ""

\* doLogin going on to the browser after wallet_sign_hash has thrown
SignAndRedirectUncaught(loginUser, unlocked, signThrows, components) ==
    <<WalletSignHash(loginUser, unlocked),
      Log("ilog", "Spawning login window"),
      OpenInExternalBrowser(RedirectUrl(components), loginUser)>>

\* lines 611-629: the signature and the redirect, or the catch of line 626
SignAndRedirect(loginUser, unlocked, signThrows, components) ==
    IF ~unlocked \/ signThrows
    THEN <<WalletSignHash(loginUser, unlocked), Warning("Unable to Login")>>
    ELSE <<WalletSignHash(loginUser, unlocked),
           Log("ilog", "Spawning login window"),
           OpenInExternalBrowser(RedirectUrl(components), loginUser)>>

WalletAccountLists == {<<>>, <<"alice">>, <<"alice", "bob">>}

LoginComponentLists ==
    {<<>>, <<"XTS7serverOneTimeKey">>, <<"junk">>,
     <<"XTS7serverOneTimeKey", "serverSignature">>,
     <<"XTS7serverOneTimeKey", "serverSignature", "example.com", "return">>,
     <<"XTS7serverOneTimeKey", "strangerSignature", "example.com", "return">>,
     <<"XTS7serverOneTimeKey", "junk", "example.com", "return">>,
     <<"XTS7offCurveKey", "serverSignature", "example.com", "return">>,
     <<"junk", "serverSignature", "example.com", "return">>}

LoginInputs ==
    [components : LoginComponentLists,
     registered : {{}, {"serverAccountKey"}},
     headBlockAge : {0, 5},
     accounts : WalletAccountLists,
     signThrows : BOOLEAN]

InitLogin ==
    /\ majorVersion = 0
    /\ forkVersion = 4
    /\ minorVersion = 16
    /\ patchVersion = 97
    /\ webUpdateDescription = DefaultUpdateDetails
    /\ webJson = {}
    /\ webDat = {}
    /\ webPackage = EmptyWebPackage
    /\ activeSource = {}
    /\ inflight = [k \in RequestKinds |-> 0]
    /\ dialogs = <<>>
    /\ updateCheckerActive = TRUE
    /\ pendingLoads = 0
    /\ started = TRUE
    /\ walletUnlocked \in BOOLEAN
    /\ installing = {}
    /\ crashPoint = "none"
    /\ effects = <<>>
    /\ \E in \in LoginInputs : reply = [kind |-> "login", body |-> in]
    /\ visible = FALSE
    /\ deferredUrl = <<>>
    /\ startup = "constructed"

\* doLogin, lines 564-602, into the exec() of line 530 or 559
DoLogin ==
    /\ reply.kind = "login"
    /\ effects = <<>>
    /\ \E key \in ReadComponent(reply.body.components, 1) :
       \E sig \in ReadComponent(reply.body.components, 2) :
          LET run == LoginUntilDialog(key, sig, reply.body)
          IN /\ effects' = run.effects
             /\ dialogs' = run.dialog
    /\ UNCHANGED <<visible, deferredUrl, startup>>
    /\ UNCHANGED <<majorVersion, forkVersion, minorVersion, patchVersion,
                   webUpdateDescription, webJson, webDat, webPackage, activeSource,
                   inflight, updateCheckerActive, pendingLoads, started, reply,
                   walletUnlocked, installing, crashPoint>>

\* exec() returns, and doLogin goes on from line 530 or 559 to its end
LoginDialogAnswer(accepted, current) ==
    /\ reply.kind = "login"
    /\ dialogs # <<>>
    /\ current \in 1..Len(dialogs[1].accounts)
    /\ dialogs[1].kind = "loginAuthBox" => current = 1
    /\ LET frame == dialogs[1]
           loginUser == getLoginUser(frame, accepted, current)
       IN effects' = effects
              \o <<ExecReturned(frame.kind, accepted, frame.accounts[current])>>
              \o IF loginUser = "" THEN <<>>
                 ELSE SignAndRedirect(loginUser, walletUnlocked, reply.body.signThrows,
                                      reply.body.components)
    /\ dialogs' = <<>>
    /\ UNCHANGED <<visible, deferredUrl, startup>>
    /\ UNCHANGED <<majorVersion, forkVersion, minorVersion, patchVersion,
                   webUpdateDescription, webJson, webDat, webPackage, activeSource,
                   inflight, updateCheckerActive, pendingLoads, started, reply,
                   walletUnlocked, installing, crashPoint>>

\* the wallet locks: the unlock time of line 474 has run out, or
\* loadWebUpdates has reached line 1032
LockWallet ==
    /\ reply.kind = "login"
    /\ walletUnlocked
    /\ walletUnlocked' = FALSE
    /\ UNCHANGED <<visible, deferredUrl, startup>>
    /\ UNCHANGED <<majorVersion, forkVersion, minorVersion, patchVersion,
                   webUpdateDescription, webJson, webDat, webPackage, activeSource,
                   inflight, dialogs, updateCheckerActive, pendingLoads, started, reply,
                   installing, crashPoint, effects>>

NextLogin ==
    \/ DoLogin
    \/ \E accepted \in BOOLEAN, current \in 1..2 : LoginDialogAnswer(accepted, current)
    \/ LockWallet

SpecLogin == InitLogin /\ [][NextLogin]_vars

(***************************************************************************)
(* The order of the manifest: three UpdateDetails are compared with        *)
(* operator< and inserted, in the order given, into the std::set of a      *)
(* WebUpdateManifest (src/WebUpdates.hpp:58-73), as the parse of line 884  *)
(* of MainWindow.cpp does with the entries of a manifest.                  *)
(***************************************************************************)
InitOrder ==
    /\ majorVersion = 0
    /\ forkVersion = 4
    /\ minorVersion = 16
    /\ patchVersion = 97
    /\ webUpdateDescription = DefaultUpdateDetails
    /\ webJson = {}
    /\ webDat = {}
    /\ webPackage = EmptyWebPackage
    /\ activeSource = {}
    /\ inflight = [k \in RequestKinds |-> 0]
    /\ dialogs = <<>>
    /\ updateCheckerActive = TRUE
    /\ pendingLoads = 0
    /\ started = TRUE
    /\ walletUnlocked = FALSE
    /\ installing = {}
    /\ crashPoint = "none"
    /\ effects = <<>>
    /\ \E a \in ReplyEntries, b \in ReplyEntries, c \in ReplyEntries :
          reply = [kind |-> "entries", body |-> <<a, b, c>>]
    /\ visible = FALSE
    /\ deferredUrl = <<>>
    /\ startup = "constructed"

\* manifest.updates after the three insertions
InsertEntries ==
    /\ reply.kind = "entries"
    /\ effects = <<>>
    /\ effects' = <<[op |-> "updates", arg |-> ParseManifest(reply.body)]>>
    /\ UNCHANGED <<visible, deferredUrl, startup>>
    /\ UNCHANGED <<majorVersion, forkVersion, minorVersion, patchVersion,
                   webUpdateDescription, webJson, webDat, webPackage, activeSource,
                   inflight, dialogs, updateCheckerActive, pendingLoads, started, reply,
                   walletUnlocked, installing, crashPoint>>

NextOrder == InsertEntries

SpecOrder == InitOrder /\ [][NextOrder]_vars

(***************************************************************************)
(* One package on its way: nothing is installed, the manifest handler has  *)
(* selected the descriptor 0.4.16-b signed over the package of some files  *)
(* and requested it; the reply, the dialog, the install and the queued     *)
(* loadWebUpdates follow, with no other check under way.                   *)
(***************************************************************************)
PackagePaths == {"a.html", "b.js"}

PackageContents == {"bytes1", "bytes2", "bytes3"}

\* the vectors of (path, bytes) pairs with distinct paths
FileLists ==
    {files \in SeqsUpTo(PackagePaths \X PackageContents, Cardinality(PackagePaths)) :
        \A i \in 1..Len(files) : \A j \in 1..Len(files) :
           i # j => files[i][1] # files[j][1]}

\* what the packaging does with them: fc::raw::pack, then lzma compression
PackageOf(files) == Lzma(Packed(files))

InitPackage ==
    /\ majorVersion = 0
    /\ forkVersion = 4
    /\ minorVersion = 16
    /\ patchVersion = 97
    /\ \E files \in FileLists :
          webUpdateDescription = Signed(0, 4, 16, 98, BuildTimestamp + 1, TwoKeys,
                                        PackageOf(files))
    /\ webJson = {}
    /\ webDat = {}
    /\ webPackage = EmptyWebPackage
    /\ activeSource = {}
    /\ inflight = [k \in RequestKinds |-> IF k = <<"package", "menu">> THEN 1 ELSE 0]
    /\ dialogs = <<>>
    /\ updateCheckerActive = TRUE
    /\ pendingLoads = 0
    /\ started = TRUE
    /\ reply = NoReply
    /\ walletUnlocked = FALSE
    /\ installing = {}
    /\ crashPoint = "none"
    /\ effects = <<>>
    /\ visible = FALSE
    /\ deferredUrl = <<>>
    /\ startup = "constructed"

\* the network answers the request with the package of any files
DownloadPackage == \E files \in FileLists : PackageReply("menu", PackageOf(files))

NextPackage ==
    \/ DownloadPackage
    \/ \E yes \in BOOLEAN : UpdateDialogAnswer(yes)
    \/ \E flushed \in BOOLEAN : InstallWritePackage(flushed)
    \/ InstallSaveDescription
    \/ InstallFinish
    \/ QueuedLoad

SpecPackage == InitPackage /\ [][NextPackage]_vars

(***************************************************************************)
(* The web view: the text of the location bar is entered                   *)
(* (MainWindow::changeLocation), or the view's URL changes, by a load of   *)
(* the window or by the page itself, and the urlChanged handler of         *)
(* BitSharesApp::prepareStartupSequence runs.  No handler keeps a state    *)
(* for the next one but the wallet, so one handler run on any input and    *)
(* any wallet state stands for every sequence of them.                     *)
(***************************************************************************)
LocalHosts == {<<"localhost">>, <<"127.0.0.1">>}

\* the text starts with a scheme and "//"
HasSchemeAndAuthority(text) ==
    /\ Len(text) >= 4
    /\ text[1] \notin Delimiters
    /\ text[2] = ":"
    /\ text[3] = "/"
    /\ text[4] = "/"

\* QUrl::fromUserInput: a text that is no URL of its own is taken as the
\* host and path of an http URL
fromUserInput(text) ==
    IF text = <<>> \/ HasSchemeAndAuthority(text) THEN text
    ELSE <<"http", ":", "/", "/">> \o text

\* MainWindow::changeLocation, lines 316-337, after walletIsUnlocked has
\* given `unlocked`
changeLocation(urlstr, unlocked) ==
    IF ~unlocked THEN <<>>
    ELSE <<Log("ilog", "change URL to")>> \o
         IF toLower(left(urlstr, indexOf(urlstr, ":"))) = CUSTOM_URL_SCHEME
         THEN processCustomUrl(urlstr)
         ELSE <<Load(fromUserInput(urlstr)), SetFocus>>

AddToJavaScriptWindowObject(name) ==
    [op |-> "addToJavaScriptWindowObject", arg |-> <<name>>]

\* the urlChanged handler attaching the objects when the URL begins with a
\* local address
urlChangedByPrefix(newUrl) ==
    <<Log("ilog", "loading for URL"), [op |-> "updateLocationEdit", arg |-> newUrl]>> \o
    IF newUrl # <<>> /\ TakeUntil(Authority(newUrl), {":", "@"}) \notin LocalHosts
    THEN <<Log("ilog", "browse to non-localhost URL")>>
    ELSE <<AddToJavaScriptWindowObject("application"),
           AddToJavaScriptWindowObject("bitshares"),
           AddToJavaScriptWindowObject("magic_unicorn")>>

\* the urlChanged handler, BitSharesApp.cpp:456-469
urlChanged(newUrl) ==
    <<Log("ilog", "loading for URL"), [op |-> "updateLocationEdit", arg |-> newUrl]>> \o
    IF newUrl # <<>> /\ UrlHost(newUrl) \notin LocalHosts
    THEN <<Log("ilog", "browse to non-localhost URL")>>
    ELSE <<AddToJavaScriptWindowObject("application"),
           AddToJavaScriptWindowObject("bitshares"),
           AddToJavaScriptWindowObject("magic_unicorn")>>

\* what may stand after the scheme of a URL, or alone in the location bar
UrlAuthorities ==
    {<<"localhost">>, <<"127.0.0.1">>, <<"evil.com">>,
     <<"127.0.0.1", "@", "evil.com">>, <<"localhost", ":", "x", "@", "evil.com">>,
     <<"evil.com", "@", "127.0.0.1">>, <<"localhost.evil.com">>}

UrlPorts == {<<>>, <<":", "9989">>}

UrlPaths == {<<>>, <<"/">>, <<"/", "#", "/", "home">>, <<"/", "?", "localhost">>}

\* the URLs the view may change to
ViewUrls ==
    {<<>>, <<"about", ":", "blank">>, <<"file", ":", "/", "/", "/", "etc">>} \cup
    {scheme \o authority \o port \o path :
        scheme \in {<<"http", ":", "/", "/">>, <<"https", ":", "/", "/">>},
        authority \in UrlAuthorities, port \in UrlPorts, path \in UrlPaths}

\* the texts the user may enter in the location bar
LocationTexts ==
    ViewUrls \cup UrlExamples \cup
    {<<"xts", ":", "blocks", "/", "4x">>, <<"XTS", ":", "home">>} \cup
    {authority \o path : authority \in UrlAuthorities, path \in UrlPaths}

InitView ==
    /\ majorVersion = 0
    /\ forkVersion = 4
    /\ minorVersion = 16
    /\ patchVersion = 97
    /\ webUpdateDescription = DefaultUpdateDetails
    /\ webJson = {}
    /\ webDat = {}
    /\ webPackage = EmptyWebPackage
    /\ activeSource = {}
    /\ inflight = [k \in RequestKinds |-> 0]
    /\ dialogs = <<>>
    /\ updateCheckerActive = TRUE
    /\ pendingLoads = 0
    /\ started = TRUE
    /\ walletUnlocked \in BOOLEAN
    /\ installing = {}
    /\ crashPoint = "none"
    /\ effects = <<>>
    /\ \/ \E urlstr \in LocationTexts : reply = [kind |-> "location", body |-> urlstr]
       \/ \E newUrl \in ViewUrls : reply = [kind |-> "urlChanged", body |-> newUrl]
    /\ visible = FALSE
    /\ deferredUrl = <<>>
    /\ startup = "constructed"

\* return is pressed in the location bar; a locked wallet asks for the
\* password (walletIsUnlocked, lines 449-484) and the user gives it or not
ChangeLocation ==
    /\ reply.kind = "location"
    /\ effects = <<>>
    /\ \E unlocked \in (IF walletUnlocked THEN {TRUE} ELSE BOOLEAN) :
          /\ walletUnlocked' = unlocked
          /\ effects' = <<[op |-> "walletIsUnlocked", arg |-> <<unlocked>>]>>
                            \o changeLocation(reply.body, unlocked)
    /\ UNCHANGED <<visible, deferredUrl, startup>>
    /\ UNCHANGED <<majorVersion, forkVersion, minorVersion, patchVersion,
                   webUpdateDescription, webJson, webDat, webPackage, activeSource,
                   inflight, dialogs, updateCheckerActive, pendingLoads, started, reply,
                   installing, crashPoint>>

\* QGraphicsWebView::urlChanged
UrlChanged ==
    /\ reply.kind = "urlChanged"
    /\ effects = <<>>
    /\ effects' = urlChanged(reply.body)
    /\ UNCHANGED <<visible, deferredUrl, startup>>
    /\ UNCHANGED <<majorVersion, forkVersion, minorVersion, patchVersion,
                   webUpdateDescription, webJson, webDat, webPackage, activeSource,
                   inflight, dialogs, updateCheckerActive, pendingLoads, started, reply,
                   walletUnlocked, installing, crashPoint>>

NextView ==
    \/ ChangeLocation
    \/ UrlChanged

SpecView == InitView /\ [][NextView]_vars

(***************************************************************************)
(* MainWindow::goToRefCode (src/MainWindow.cpp:420-442) and                *)
(* MainWindow::goToTransfer (632-668): one call on one component list.     *)
(* QList::takeFirst and QList::pop_front on an empty list are undefined:   *)
(* the call aborts (the assertion of a debug build of Qt) or goes on with  *)
(* whatever the read gave.                                                 *)
(***************************************************************************)
MaxParameters == 3

ParameterWords == {"faucet", "code", "amount", "memo", "from", "asset", "x", "5"}

\* what a read past the end of a list gives, when the call goes on
JunkWord == "junk"

\* lines 428-436: the loop over parameters; emptyTake tells that an element
\* was taken from the empty list, by line 431, 433 or 435
RECURSIVE parseRefCode(_, _, _)
parseRefCode(parameters, faucet, code) ==
    IF parameters = <<>>
    THEN [faucet |-> faucet, code |-> code, emptyTake |-> FALSE]
    ELSE LET parameterName == Head(parameters)
             rest == Tail(parameters)
         IN IF rest = <<>>
            THEN [faucet |-> IF parameterName = "faucet" THEN JunkWord ELSE faucet,
                  code |-> IF parameterName = "code" THEN JunkWord ELSE code,
                  emptyTake |-> TRUE]
            ELSE IF parameterName = "faucet" THEN parseRefCode(Tail(rest), Head(rest), code)
            ELSE IF parameterName = "code" THEN parseRefCode(Tail(rest), faucet, Head(rest))
            ELSE parseRefCode(Tail(rest), faucet, code)

TakeFromEmptyList == [op |-> "takeFromEmptyList", arg |-> <<>>]

\* goToRefCode after walletIsUnlocked has given `unlocked`; `aborts` is the
\* outcome of a take from the empty list, if there is one
goToRefCode(components, unlocked, aborts) ==
    IF ~unlocked THEN <<>>
    ELSE LET parsed == parseRefCode(SubSeq(components, 2, Len(components)), "", "")
         IN IF parsed.emptyTake /\ aborts
            THEN <<TakeFromEmptyList, Aborted>>
            ELSE (IF parsed.emptyTake THEN <<TakeFromEmptyList>> ELSE <<>>) \o
                 <<NavigateTo(<<"/referral_code?faucet=", parsed.faucet,
                                "&code=", parsed.code>>)>>

\* lines 642-659: the loop over parameters; a name without a value ends it
\* (lines 644-648), an unknown name is passed over alone (line 658)
RECURSIVE parseTransfer(_, _)
parseTransfer(parameters, values) ==
    IF parameters = <<>>
    THEN [values |-> values, log |-> <<>>]
    ELSE LET parameterName == Head(parameters)
             rest == Tail(parameters)
         IN IF rest = <<>>
            THEN [values |-> values, log |-> <<Log("elog", "URL is malformed")>>]
            ELSE IF parameterName \in {"amount", "memo", "from", "asset"}
            THEN parseTransfer(Tail(rest), [values EXCEPT ![parameterName] = Head(rest)])
            ELSE LET then == parseTransfer(rest, values)
                 IN [values |-> then.values,
                     log |-> <<Log("wlog", "Ignoring unknown token in URL")>> \o then.log]

\* goToTransfer after walletIsUnlocked has given `unlocked`; `to` is what
\* components[0] gave (line 663)
goToTransfer(components, unlocked, to) ==
    IF ~unlocked THEN <<>>
    ELSE LET parsed == parseTransfer(SubSeq(components, 3, Len(components)),
                                     [n \in {"amount", "memo", "from", "asset"} |-> ""])
         IN parsed.log \o
            IF to = OutOfRange THEN <<Aborted>>
            ELSE <<NavigateTo(<<"/transfer?from=", parsed.values["from"], "&to=", to,
                                "&amount=", parsed.values["amount"],
                                "&asset=", parsed.values["asset"],
                                "&memo=", parsed.values["memo"]>>)>>

\* the component lists of the two calls
ParameterLists == SeqsUpTo(ParameterWords, MaxParameters)

RefCodeComponentLists ==
    {<<>>} \cup {<<"referral_code">> \o parameters : parameters \in ParameterLists}

TransferComponentLists ==
    {<<>>, <<"bob">>} \cup {<<"bob", "transfer">> \o parameters : parameters \in ParameterLists}

InitParameters ==
    /\ majorVersion = 0
    /\ forkVersion = 4
    /\ minorVersion = 16
    /\ patchVersion = 97
    /\ webUpdateDescription = DefaultUpdateDetails
    /\ webJson = {}
    /\ webDat = {}
    /\ webPackage = EmptyWebPackage
    /\ activeSource = {}
    /\ inflight = [k \in RequestKinds |-> 0]
    /\ dialogs = <<>>
    /\ updateCheckerActive = TRUE
    /\ pendingLoads = 0
    /\ started = TRUE
    /\ walletUnlocked \in BOOLEAN
    /\ installing = {}
    /\ crashPoint = "none"
    /\ effects = <<>>
    /\ \/ \E components \in RefCodeComponentLists :
             reply = [kind |-> "goToRefCode", body |-> components]
       \/ \E components \in TransferComponentLists :
             reply = [kind |-> "goToTransfer", body |-> components]
    /\ visible = FALSE
    /\ deferredUrl = <<>>
    /\ startup = "constructed"

GoToRefCode ==
    /\ reply.kind = "goToRefCode"
    /\ effects = <<>>
    /\ \E unlocked \in (IF walletUnlocked THEN {TRUE} ELSE BOOLEAN), aborts \in BOOLEAN :
          /\ walletUnlocked' = unlocked
          /\ effects' = <<[op |-> "walletIsUnlocked", arg |-> <<unlocked>>]>>
                            \o goToRefCode(reply.body, unlocked, aborts)
    /\ UNCHANGED <<visible, deferredUrl, startup>>
    /\ UNCHANGED <<majorVersion, forkVersion, minorVersion, patchVersion,
                   webUpdateDescription, webJson, webDat, webPackage, activeSource,
                   inflight, dialogs, updateCheckerActive, pendingLoads, started, reply,
                   installing, crashPoint>>

GoToTransfer ==
    /\ reply.kind = "goToTransfer"
    /\ effects = <<>>
    /\ \E unlocked \in (IF walletUnlocked THEN {TRUE} ELSE BOOLEAN),
          to \in (IF reply.body # <<>> THEN {reply.body[1]} ELSE {OutOfRange, JunkWord}) :
          /\ walletUnlocked' = unlocked
          /\ effects' = <<[op |-> "walletIsUnlocked", arg |-> <<unlocked>>]>>
                            \o goToTransfer(reply.body, unlocked, to)
    /\ UNCHANGED <<visible, deferredUrl, startup>>
    /\ UNCHANGED <<majorVersion, forkVersion, minorVersion, patchVersion,
                   webUpdateDescription, webJson, webDat, webPackage, activeSource,
                   inflight, dialogs, updateCheckerActive, pendingLoads, started, reply,
                   installing, crashPoint>>

NextParameters ==
    \/ GoToRefCode
    \/ GoToTransfer

SpecParameters == InitParameters /\ [][NextParameters]_vars

(***************************************************************************)
(* The calls one loadWebUpdates or removeWebUpdates run makes on the       *)
(* wallet, the client wrapper and the web view, in their order.  The run   *)
(* starts over any files and any bundle the update path can leave behind;  *)
(* loadWebUpdates runs with the client up, or before it is (the call of    *)
(* BitSharesApp::run), removeWebUpdates from the menu with the client up.  *)
(***************************************************************************)
Called(op) == [op |-> op, arg |-> <<>>]

\* loadWebUpdates reaches line 1026: both files are there, they verify,
\* decompress and deserialize
LoadReachesInstall ==
    /\ webJson # {}
    /\ webDat # {}
    /\ LET desc == CHOOSE d \in webJson : TRUE
           updatePackage == CHOOSE b \in webDat : TRUE
           decompressedStream == lzma_decompress(updatePackage)
       IN /\ ~LoadRejects(updatePackage, desc)
          /\ decompressedStream.ok
          /\ unpack(decompressedStream.stream).ok

\* lines 1031-1034 with the reload ahead of the lock
loadWebUpdatesCallsReloadFirst(clientExists) ==
    <<Called("set_web_package"), Called("reload")>> \o
    (IF clientExists THEN <<Called("lock")>> ELSE <<>>)

\* lines 1031-1034
loadWebUpdatesCalls(clientExists) ==
    (IF clientExists THEN <<Called("lock")>> ELSE <<>>) \o
    <<Called("set_web_package"), Called("reload")>>

\* lines 968-973
removeWebUpdatesCalls ==
    <<Called("remove web.json"), Called("remove web.dat"), Called("set_web_package"),
      Called("lock"), Called("reload")>>

InitReload ==
    /\ majorVersion = 0
    /\ forkVersion = 4
    /\ minorVersion = 16
    /\ webUpdateDescription \in Updates \cup {DefaultUpdateDetails}
    /\ webJson \in {{}} \cup {{d} : d \in Updates}
    /\ webDat \in {{}} \cup {{p} : p \in Packages}
    /\ \/ /\ activeSource = {}
          /\ webPackage = EmptyWebPackage
          /\ patchVersion \in PatchCodes
       \/ \E pair \in LoadablePairs :
             /\ activeSource = {pair}
             /\ webPackage = WebInterfaceMap(unpack(lzma_decompress(pair.bytes).stream).files)
             /\ patchVersion = pair.desc.patchVersion
    /\ inflight = [k \in RequestKinds |-> 0]
    /\ dialogs = <<>>
    /\ updateCheckerActive = TRUE
    /\ pendingLoads = 0
    /\ started = TRUE
    /\ installing = {}
    /\ crashPoint = "none"
    /\ effects = <<>>
    /\ \/ /\ reply = [kind |-> "loadWebUpdates", body |-> [clientExists |-> FALSE]]
          /\ walletUnlocked = FALSE
       \/ /\ reply = [kind |-> "loadWebUpdates", body |-> [clientExists |-> TRUE]]
          /\ walletUnlocked \in BOOLEAN
       \/ /\ \E yes \in BOOLEAN : reply = [kind |-> "removeWebUpdates", body |-> [yes |-> yes]]
          /\ walletUnlocked \in BOOLEAN
    /\ visible = FALSE
    /\ deferredUrl = <<>>
    /\ startup = "constructed"

\* one loadWebUpdates run and its calls
LoadWebUpdatesRun ==
    /\ reply.kind = "loadWebUpdates"
    /\ effects = <<>>
    /\ loadWebUpdates
    /\ effects' = <<Called("loadWebUpdates")>> \o
                  IF LoadReachesInstall THEN loadWebUpdatesCalls(reply.body.clientExists)
                  ELSE <<>>
    /\ UNCHANGED <<visible, deferredUrl, startup>>
    /\ UNCHANGED <<majorVersion, forkVersion, minorVersion, inflight, dialogs,
                   updateCheckerActive, pendingLoads, started, reply, installing,
                   crashPoint>>

\* one removeWebUpdates run and its calls
RemoveWebUpdatesRun ==
    /\ reply.kind = "removeWebUpdates"
    /\ effects = <<>>
    /\ IF reply.body.yes
       THEN /\ webJson' = {}
            /\ webDat' = {}
            /\ webPackage' = EmptyWebPackage
            /\ activeSource' = {}
            /\ walletUnlocked' = FALSE
            /\ effects' = <<Called("removeWebUpdates")>> \o removeWebUpdatesCalls
       ELSE /\ UNCHANGED <<webJson, webDat, webPackage, activeSource, walletUnlocked>>
            /\ effects' = <<Called("removeWebUpdates")>>
    /\ UNCHANGED <<visible, deferredUrl, startup>>
    /\ UNCHANGED <<majorVersion, forkVersion, minorVersion, patchVersion,
                   webUpdateDescription, inflight, dialogs, updateCheckerActive,
                   pendingLoads, started, reply, installing, crashPoint>>

NextReload ==
    \/ LoadWebUpdatesRun
    \/ RemoveWebUpdatesRun

SpecReload == InitReload /\ [][NextReload]_vars

(***************************************************************************)
(* The startup sequence of BitSharesApp::run (src/BitSharesApp.cpp:        *)
(* 340-416) and the deep links that arrive during and after it: the        *)
(* command-line argument of this process, FileOpen events                  *)
(* (MainWindow::eventFilter) and the messages of second instances          *)
(* (startSingleInstanceServer).  Events are delivered from exec() on.      *)
(* effects keeps the deferCustomUrl and processCustomUrl calls in order.   *)
(***************************************************************************)
MaxLinks == 2

\* the deep links the operating system or another instance hands over
DeepLinks == {<<"xts", ":", "home">>, <<"xts", ":", "accounts", "/", "bob">>,
              <<"xts", ":", "blocks", "/", "42">>}

\* arguments()[1]: none, a deep link, or something else
Arguments == {<<>>, <<"--help">>} \cup DeepLinks

\* the client wrapper has been initialized; get_httpd_endpoint() is set
ClientInitialized == startup \in {"initialized", "loaded"}

\* processCustomUrl comes to line 162, which reads the httpd endpoint
ReachesEndpoint(url) ==
    /\ toLower(left(url, indexOf(url, ":"))) = CUSTOM_URL_SCHEME
    /\ split(removeLeadingSlashes(mid(url, indexOf(url, ":") + 1))) # <<>>

\* a processCustomUrl call and what it does; reading the endpoint of a
\* client that is not initialized is undefined: the process aborts or the
\* call goes on
ProcessCustomUrlCalls(url) ==
    {<<[op |-> "processCustomUrl", arg |-> url]>> \o done :
        done \in IF ClientInitialized \/ ~ReachesEndpoint(url)
                 THEN {processCustomUrl(url)}
                 ELSE {<<Aborted>>, processCustomUrl(url)}}

Crashed == \E i \in 1..Len(effects) : effects[i] = Aborted

LinksArrived ==
    Cardinality({i \in 1..Len(effects) : effects[i].op \in {"FileOpen", "newConnection"}})

\* MainWindow::deferCustomUrl, lines 100-109: the calls it makes and the
\* _deferredUrl it leaves
deferCustomUrl(url) ==
    IF visible
    THEN {[calls |-> calls, deferredUrl |-> deferredUrl] :
             calls \in ProcessCustomUrlCalls(url)}
    ELSE {[calls |-> <<[op |-> "deferCustomUrl", arg |-> url]>>, deferredUrl |-> url]}

InitStartup ==
    /\ majorVersion = 0
    /\ forkVersion = 4
    /\ minorVersion = 16
    /\ patchVersion = 97
    /\ webUpdateDescription = DefaultUpdateDetails
    /\ webJson = {}
    /\ webDat = {}
    /\ webPackage = EmptyWebPackage
    /\ activeSource = {}
    /\ inflight = [k \in RequestKinds |-> 0]
    /\ dialogs = <<>>
    /\ updateCheckerActive = TRUE
    /\ pendingLoads = 0
    /\ started = FALSE
    /\ reply = NoReply
    /\ walletUnlocked = FALSE
    /\ installing = {}
    /\ crashPoint = "none"
    /\ effects = <<>>
    /\ visible = FALSE
    /\ deferredUrl = <<>>
    /\ startup = "constructed"

\* BitSharesApp::run, lines 340-416, up to exec(): no other instance runs; a
\* deep link given as arguments()[1] is deferred (365-369), loadWebUpdates
\* finds no files (387), the client's initialization is started (410-414)
RunUntilExec(argument) ==
    /\ startup = "constructed"
    /\ startup' = "exec"
    /\ started' = TRUE
    /\ IF Len(argument) >= 2 /\ <<argument[1]>> = CUSTOM_URL_SCHEME /\ argument[2] = ":"
       THEN \E done \in deferCustomUrl(argument) :
               /\ effects' = effects \o done.calls
               /\ deferredUrl' = done.deferredUrl
       ELSE UNCHANGED <<effects, deferredUrl>>
    /\ UNCHANGED <<majorVersion, forkVersion, minorVersion, patchVersion,
                   webUpdateDescription, webJson, webDat, webPackage, activeSource,
                   inflight, dialogs, updateCheckerActive, pendingLoads, reply,
                   walletUnlocked, installing, crashPoint, visible>>

\* MainWindow::eventFilter, lines 82-97, on a FileOpen event
FileOpen(url) ==
    /\ startup # "constructed"
    /\ ~Crashed
    /\ LinksArrived < MaxLinks
    /\ IF visible
       THEN \E calls \in ProcessCustomUrlCalls(url) :
               /\ effects' = effects \o <<[op |-> "FileOpen", arg |-> url]>> \o calls
               /\ UNCHANGED deferredUrl
       ELSE \E done \in deferCustomUrl(url) :
               /\ effects' = effects \o <<[op |-> "FileOpen", arg |-> url]>> \o done.calls
               /\ deferredUrl' = done.deferredUrl
    /\ UNCHANGED <<majorVersion, forkVersion, minorVersion, patchVersion,
                   webUpdateDescription, webJson, webDat, webPackage, activeSource,
                   inflight, dialogs, updateCheckerActive, pendingLoads, reply,
                   walletUnlocked, installing, crashPoint, started, visible, startup>>

\* the newConnection handler of startSingleInstanceServer, lines 521-540: a
\* second instance has connected and has sent its deep link, or nothing
NewConnection(message) ==
    /\ startup # "constructed"
    /\ ~Crashed
    /\ LinksArrived < MaxLinks
    /\ visible' = TRUE
    /\ IF message # <<>>
       THEN \E calls \in ProcessCustomUrlCalls(message) :
               effects' = effects \o <<[op |-> "newConnection", arg |-> message]>> \o calls
       ELSE effects' = effects \o <<[op |-> "newConnection", arg |-> message]>>
    /\ UNCHANGED <<majorVersion, forkVersion, minorVersion, patchVersion,
                   webUpdateDescription, webJson, webDat, webPackage, activeSource,
                   inflight, dialogs, updateCheckerActive, pendingLoads, reply,
                   walletUnlocked, installing, crashPoint, started, deferredUrl, startup>>

\* the handler of ClientWrapper::initialized, lines 475-480: the web view is
\* given the interface's URL
Initialized ==
    /\ startup = "exec"
    /\ ~Crashed
    /\ startup' = "initialized"
    /\ UNCHANGED <<majorVersion, forkVersion, minorVersion, patchVersion,
                   webUpdateDescription, webJson, webDat, webPackage, activeSource,
                   inflight, dialogs, updateCheckerActive, pendingLoads, reply,
                   walletUnlocked, installing, crashPoint, started, effects, visible, deferredUrl>>

\* the handler of the first loadFinished, lines 482-492: the window is shown
\* and MainWindow::processDeferredUrl (lines 111-115) runs
LoadFinished ==
    /\ startup = "initialized"
    /\ ~Crashed
    /\ startup' = "loaded"
    /\ visible' = TRUE
    /\ \E calls \in ProcessCustomUrlCalls(deferredUrl) :
          effects' = effects \o <<[op |-> "processDeferredUrl", arg |-> deferredUrl]>> \o calls
    /\ deferredUrl' = <<>>
    /\ UNCHANGED <<majorVersion, forkVersion, minorVersion, patchVersion,
                   webUpdateDescription, webJson, webDat, webPackage, activeSource,
                   inflight, dialogs, updateCheckerActive, pendingLoads, reply,
                   walletUnlocked, installing, crashPoint, started>>

NextStartup ==
    \/ \E argument \in Arguments : RunUntilExec(argument)
    \/ \E url \in DeepLinks : FileOpen(url)
    \/ \E message \in DeepLinks \cup {<<>>} : NewConnection(message)
    \/ Initialized
    \/ LoadFinished

SpecStartup == InitStartup /\ [][NextStartup]_vars

(***************************************************************************)
(* Properties.                                                             *)
(***************************************************************************)
\* the trusted addresses the signatures of desc recover to over these bytes
TrustedSigners(updatePackage, desc) ==
    {RecoverAddress(s, Sha256(updatePackage, desc)) : s \in desc.signatures}
        \cap WEB_UPDATES_SIGNING_KEYS

\* C1: in every reachable state a non-empty in-memory web package is the map
\* of the files of bytes read from web.dat for which verifyUpdateSignature
\* returned true against the descriptor read from web.json.
C1_ActiveBundleVerified ==
    /\ webPackage # EmptyWebPackage => activeSource # {}
    /\ \A src \in activeSource :
          /\ verifyUpdateSignature(src.bytes, src.desc)
          /\ webPackage =
                WebInterfaceMap(unpack(lzma_decompress(src.bytes).stream).files)

\* C1 witness: a bundle read from disk is active
C1_Witness ==
    /\ webPackage # EmptyWebPackage
    /\ activeSource # {}
    /\ started

\* C2: the package handler accepts the bytes (opens the update dialog) if and
\* only if the descriptor's timestamp is not earlier than the build's and its
\* signatures recover to at least WEB_UPDATES_SIGNATURE_REQUIREMENT distinct
\* addresses of WEB_UPDATES_SIGNING_KEYS.
C2_VerifyIffDistinctTrusted ==
    (reply.kind = "package" /\ Handled) =>
        ( dialogs # <<>> <=>
            /\ webUpdateDescription.timestamp >= BuildTimestamp
            /\ Cardinality(TrustedSigners(reply.body, webUpdateDescription))
                    >= WEB_UPDATES_SIGNATURE_REQUIREMENT )

\* C2 witness: bytes refused although two signatures of a trusted key are
\* present, both recovering to the same address, beside an untrusted one
C2_Witness ==
    /\ reply.kind = "package"
    /\ Handled
    /\ dialogs = <<>>
    /\ webUpdateDescription.timestamp >= BuildTimestamp
    /\ Cardinality(webUpdateDescription.signatures) = 3
    /\ TrustedSigners(reply.body, webUpdateDescription) = {"key1"}

ReplyUpdates ==
    LET updates == ParseManifest(reply.body.entries)
    IN {updates[i] : i \in 1..Len(updates)}

\* what the comment of WebUpdates.hpp:26-28 and lines 899-901 ask of an update
SameLineNewerPatch(update) ==
    /\ update.majorVersion = majorVersion
    /\ update.forkVersion = forkVersion
    /\ update.minorVersion = minorVersion
    /\ update.patchVersion > patchVersion
    /\ Cardinality(update.signatures) >= WEB_UPDATES_SIGNATURE_REQUIREMENT

\* C4: when the manifest handler selects a candidate (stores it in
\* _webUpdateDescription and requests its package), the candidate has the
\* client's major, fork and minor, a greater patch and enough signatures; a
\* manifest whose newer entries are all of another fork selects nothing.
C4_PatchOnly ==
    (reply.kind = "manifest" /\ Handled) =>
        /\ PackageRequested =>
              /\ webUpdateDescription \in ReplyUpdates
              /\ SameLineNewerPatch(webUpdateDescription)
        /\ (\A u \in ReplyUpdates :
                Less(UpdateDetails(majorVersion, forkVersion, minorVersion,
                                   patchVersion, {}, 0), u)
                    => u.forkVersion # forkVersion)
              => ~PackageRequested

\* C4 witness: a candidate was selected from a manifest that also holds an
\* entry of a later fork
C4_Witness ==
    /\ reply.kind = "manifest"
    /\ Handled
    /\ PackageRequested
    /\ \E u \in ReplyUpdates : u.forkVersion > forkVersion

\* C5: every bundle that becomes active has a descriptor whose major, fork
\* and minor versions are the running client's.
C5_ActiveMatchesClient ==
    \A src \in activeSource :
        /\ src.desc.majorVersion = majorVersion
        /\ src.desc.forkVersion = forkVersion
        /\ src.desc.minorVersion = minorVersion

\* the identifier the selection searches from: the first of the next minor
\* line, the minor being a uint8_t and the patch the default 'a'
ProbeIdentifier ==
    UpdateDetails(majorVersion, forkVersion, (minorVersion + 1) % 256, 97, {}, 0)

\* the applicable entries of the manifest of the reply
ApplicableUpdates == {u \in ReplyUpdates : SameLineNewerPatch(u)}

\* C6, as claimed: if the manifest holds an applicable entry the handler
\* selects the applicable entry with the greatest patch, and it concludes
\* "no update" only when there is none.
C6_BestApplicable ==
    (reply.kind = "manifest" /\ Handled) =>
        IF ApplicableUpdates = {} THEN ~PackageRequested
        ELSE /\ PackageRequested
             /\ webUpdateDescription \in ApplicableUpdates
             /\ \A u \in ApplicableUpdates :
                    u.patchVersion <= webUpdateDescription.patchVersion

\* C6, amended: the handler looks only at the greatest entry below the probe;
\* it selects that entry if and only if it is applicable, and then it is the
\* applicable entry with the greatest patch; otherwise it concludes "no
\* update", also when a lower entry is applicable.
C6_GreatestBelowProbe ==
    (reply.kind = "manifest" /\ Handled) =>
        LET below == {u \in ReplyUpdates : Less(u, ProbeIdentifier)}
            greatest == CHOOSE u \in below : \A w \in below : ~Less(u, w)
        IN IF below = {} \/ ~SameLineNewerPatch(greatest) THEN ~PackageRequested
           ELSE /\ PackageRequested
                /\ webUpdateDescription = greatest
                /\ \A u \in ApplicableUpdates :
                       u.patchVersion <= greatest.patchVersion

\* C6 witness: "no update" although the manifest holds an applicable entry
C6_Witness ==
    /\ reply.kind = "manifest"
    /\ Handled
    /\ ~PackageRequested
    /\ ApplicableUpdates # {}

\* the example of C7: the client is 0.4.16-a and the manifest holds 0.4.16-a
\* and 0.4.17-b, each with two signatures
C7_Example ==
    /\ reply.kind = "manifest"
    /\ Handled
    /\ <<majorVersion, forkVersion, minorVersion, patchVersion>> = <<0, 4, 16, 97>>
    /\ ReplyUpdates = {Signed(0, 4, 16, 97, 3, TwoKeys, PackageA),
                       Signed(0, 4, 17, 98, 3, TwoKeys, PackageA)}

\* C7, as claimed: in the example the selector returns the entry 0.4.17-b.
C7_SelectsLatter ==
    C7_Example =>
        /\ PackageRequested
        /\ webUpdateDescription = Signed(0, 4, 17, 98, 3, TwoKeys, PackageA)

\* C7, amended: in the example the selector returns no update: it requests no
\* package and leaves _webUpdateDescription as it was.
C7_SelectsNothing ==
    C7_Example =>
        /\ ~PackageRequested
        /\ webUpdateDescription = DefaultUpdateDetails

\* C7 witness: the example has been handled
C7_Witness == C7_Example

\* the positions of the parsed manifest whose entry is not less than the probe
NotBelowProbe ==
    LET updates == ParseManifest(reply.body.entries)
    IN {i \in 1..Len(updates) : ~Less(updates[i], ProbeIdentifier)}

\* C8, as claimed: when no entry is greater than or equal to the probe, or the
\* first that is is the first element, no package is requested.
C8_NoneOrFirst ==
    (reply.kind = "manifest" /\ Handled) =>
        ((NotBelowProbe = {} \/ 1 \in NotBelowProbe) => ~PackageRequested)

\* C8, amended: when the manifest is empty, or the first entry greater than
\* or equal to the probe is the first element, no package is requested; when
\* the manifest is not empty and no entry is greater than or equal to the
\* probe, the last entry is the candidate and is selected iff applicable.
C8_EmptyOrFirst ==
    (reply.kind = "manifest" /\ Handled) =>
        LET updates == ParseManifest(reply.body.entries)
        IN /\ (updates = <<>> \/ 1 \in NotBelowProbe) => ~PackageRequested
           /\ (updates # <<>> /\ NotBelowProbe = {}) =>
                 /\ PackageRequested <=> SameLineNewerPatch(updates[Len(updates)])
                 /\ PackageRequested => webUpdateDescription = updates[Len(updates)]

\* C8 witness: no entry is greater than or equal to the probe and the last
\* entry has been selected
C8_Witness ==
    /\ reply.kind = "manifest"
    /\ Handled
    /\ reply.body.entries # <<>>
    /\ NotBelowProbe = {}
    /\ PackageRequested

\* a manifest reply handled without a package request: a malformed manifest
\* or no applicable update
ManifestStepFailed ==
    \E trigger \in {"menu", "timer"} :
        /\ inflight'[<<"manifest", trigger>>] < inflight[<<"manifest", trigger>>]
        /\ inflight'[<<"package", trigger>>] = inflight[<<"package", trigger>>]

\* a package reply handled without a dialog: the package signature is invalid
PackageStepFailed ==
    \E trigger \in {"menu", "timer"} :
        /\ inflight'[<<"package", trigger>>] < inflight[<<"package", trigger>>]
        /\ dialogs' = dialogs

\* loadWebUpdates activates nothing from these two files
LoadFails(json, dat) ==
    \/ json = {}
    \/ dat = {}
    \/ \E d \in json, b \in dat :
          \/ ~verifyUpdateSignature(b, d)
          \/ ~lzma_decompress(b).ok
          \/ ~unpack(lzma_decompress(b).stream).ok

\* the loadWebUpdates call queued by an install fails: signature invalid,
\* decompression error or deserialization error
QueuedLoadStepFailed ==
    /\ started'
    /\ pendingLoads' < pendingLoads
    /\ LoadFails(webJson, webDat)

\* C9: a failing step of the update path leaves web.json, web.dat and the
\* bundle in memory as they were, and after a failing load of an install the
\* previously installed bundle (the one active in memory) is still the one
\* on disk.
C9_FailuresNonDestructive ==
    [][ /\ (ManifestStepFailed \/ PackageStepFailed) =>
              UNCHANGED <<webJson, webDat, webPackage, activeSource>>
        /\ QueuedLoadStepFailed =>
              /\ UNCHANGED <<webPackage, activeSource>>
              /\ \A src \in activeSource :
                    webJson' = {src.desc} /\ webDat' = {src.bytes} ]_vars

\* C10: bytes are written to web.dat only if they decompress and deserialize:
\* a corrupt or malformed downloaded package is never written (whole; the
\* prefix a write passes through is not meant).
C10_DecodeBeforeWrite ==
    [][ \A b \in webDat' :
            (webDat' # webDat /\ b \in Packages) =>
                /\ lzma_decompress(b).ok
                /\ unpack(lzma_decompress(b).stream).ok ]_vars

\* the step is the loadWebUpdates call of BitSharesApp::run
StartupLoadStep == ~started /\ started'

\* the step is a loadWebUpdates call, of the startup or queued by an install
LoadStep == started' /\ (~started \/ pendingLoads' < pendingLoads)

\* exactly one of the two files exists
SplitState(json, dat) == (json = {}) # (dat = {})

\* C11: when the startup's loadWebUpdates finds exactly one of web.json and
\* web.dat, it deletes it: after the call neither file exists and no bundle
\* is active.
C11_LoadPurgesSplitState ==
    [][ (StartupLoadStep /\ SplitState(webJson, webDat)) =>
            /\ webJson' = {}
            /\ webDat' = {}
            /\ webPackage' = EmptyWebPackage ]_vars

\* C12: a loadWebUpdates call that finds both files and for which
\* verifyUpdateSignature fails deletes both and leaves the bundle in memory,
\* the wallet's lock state and _patchVersion as they were.
C12_TamperedFilesPurged ==
    [][ (LoadStep /\ \E d \in webJson, b \in webDat : ~verifyUpdateSignature(b, d)) =>
            /\ webJson' = {}
            /\ webDat' = {}
            /\ UNCHANGED <<webPackage, activeSource, walletUnlocked, patchVersion>> ]_vars

\* C12 witness: with a bundle active and the wallet unlocked, a load read
\* the descriptor of other files, refused them and removed them
C12_Witness ==
    /\ started
    /\ walletUnlocked
    /\ activeSource # {}
    /\ webPackage # EmptyWebPackage
    /\ pendingLoads = 0
    /\ webJson = {}
    /\ webDat = {}
    /\ \A src \in activeSource :
          /\ webUpdateDescription # src.desc
          /\ patchVersion = src.desc.patchVersion

\* C13: in no state of an install is the descriptor written to web.json
\* while web.dat holds less than the whole package of that install.
C13_DescriptorLast ==
    \A run \in installing :
        (run.at = "finish" /\ webJson = {webUpdateDescription}) => webDat = {run.package}

\* the files and the memory agree: no file and no bundle, or both files and
\* the active bundle is the verified payload of the descriptor on disk
ConsistentOnDisk ==
    \/ /\ webJson = {}
       /\ webDat = {}
       /\ activeSource = {}
       /\ webPackage = EmptyWebPackage
    \/ \E d \in webJson, b \in webDat :
          /\ verifyUpdateSignature(b, d)
          /\ activeSource = {[desc |-> d, bytes |-> b]}
          /\ webPackage # EmptyWebPackage

\* C14: when the process ended inside an install (before the write of
\* web.dat, between the two writes, after both, or before the queued load),
\* the next startup's loadWebUpdates ends with files and memory in agreement.
C14_CrashRepair ==
    [][ (StartupLoadStep /\ crashPoint # "none") => ConsistentOnDisk' ]_vars

\* C15: at most one checkWebUpdates run is alive (awaiting its manifest
\* reply, its package reply or the answer to its dialog) at any time.
C15_SingleFlight == RunsAlive <= 1

\* m maps every path of files, and nothing else, to the bytes of the last
\* pair of that path
IsBundleOf(m, files) ==
    /\ DOMAIN m = {files[i][1] : i \in 1..Len(files)}
    /\ \A i \in 1..Len(files) :
          (\A j \in (i + 1)..Len(files) : files[j][1] # files[i][1])
              => m[files[i][1]] = files[i][2]

\* C16: whenever the bundle in memory changes it becomes the empty bundle
\* (removal, a new process) or the whole bundle of the package on disk, never
\* a part of it, and a load whose decompression or deserialization fails
\* leaves the bundle as it was.
C16_AtomicSwap ==
    [][ /\ webPackage' # webPackage =>
              \/ webPackage' = EmptyWebPackage
              \/ \E b \in webDat :
                    /\ lzma_decompress(b).ok
                    /\ unpack(lzma_decompress(b).stream).ok
                    /\ IsBundleOf(webPackage', unpack(lzma_decompress(b).stream).files)
        /\ (LoadStep /\ \E b \in webDat : \/ ~lzma_decompress(b).ok
                                          \/ ~unpack(lzma_decompress(b).stream).ok)
              => UNCHANGED webPackage ]_vars

\* C16 witness: a whole bundle of two files is still active after the load
\* of later files that do not decompress or deserialize
C16_Witness ==
    /\ started
    /\ installing = {}
    /\ pendingLoads = 0
    /\ Cardinality(DOMAIN webPackage) = 2
    /\ \E src \in activeSource, b \in webDat :
          /\ b # src.bytes
          /\ b \in Packages
          /\ verifyUpdateSignature(b, webUpdateDescription)
          /\ ~unpack(lzma_decompress(b).stream).ok

\* no file on disk, no bundle in memory
Removed ==
    /\ webJson = {}
    /\ webDat = {}
    /\ webPackage = EmptyWebPackage
    /\ activeSource = {}

\* C17: a confirmed removeWebUpdates ends with no file, the empty bundle and
\* the wallet locked, whatever was installed; run in that state (a second
\* time, or with nothing installed) it changes nothing.
C17_RemovalIdempotent ==
    [][ removeWebUpdates(TRUE) =>
            /\ Removed'
            /\ ~walletUnlocked'
            /\ (Removed /\ ~walletUnlocked) => UNCHANGED vars ]_vars

\* C17 witness: the removal has run (it locked the wallet) on an update that
\* had been loaded (the patch is still that update's)
C17_Witness ==
    /\ started
    /\ Removed
    /\ ~walletUnlocked
    /\ patchVersion # 97

\* processCustomUrl has run on the string
Processed == reply.kind = "url" /\ effects # <<>>

\* the string starts with the custom scheme, in any case, and a colon
HasCustomScheme(url) ==
    /\ Len(url) >= 2
    /\ url[1] \in {"xts", "XTS"}
    /\ url[2] = ":"

\* the first non-empty component after the scheme
FirstComponent(url) ==
    LET rest == SubSeq(url, 3, Len(url))
        filled == {i \in 1..Len(rest) : rest[i] # "/"}
    IN IF filled = {} THEN <<>>
       ELSE TakeUntil(SubSeq(rest, CHOOSE i \in filled : \A j \in filled : i <= j,
                             Len(rest)), {"/"})

\* the command families the router is to know
AllowList ==
    {"home", "accounts", "blocks", "delegates", "notes", "directory", "newcontact",
     "preferences", "console", "help", "login", "transfer", "referral_code"}

\* the effects of the given kind
EffectsOf(op) == {i \in 1..Len(effects) : effects[i].op = op}

C19_CommandsDispatched ==
    (Processed /\ HasCustomScheme(reply.body)) =>
        /\ toLower(FirstComponent(reply.body)) = <<"login">>
              => EffectsOf("doLogin") # {}
        /\ toLower(FirstComponent(reply.body)) = <<"transfer">>
              => EffectsOf("goToTransfer") # {}
        /\ toLower(FirstComponent(reply.body)) = <<"referral_code">>
              => EffectsOf("goToRefCode") # {}

\* C20: every URL processCustomUrl gives to the web view has the address of
\* the local httpd endpoint as its host.
C20_SameOrigin ==
    \A i \in EffectsOf("load") : UrlHost(effects[i].arg) = <<HttpdEndpoint[1]>>

\* C20 witness: a link whose account component names another host, as user
\* info and host or as host and port, has been loaded
C20_Witness ==
    /\ Processed
    /\ \E i \in EffectsOf("load") :
          \E k \in 1..Len(effects[i].arg) : effects[i].arg[k] = "evil.com"

\* the components processCustomUrl splits the string into (lines 149-153)
ComponentsOf(url) == split(removeLeadingSlashes(mid(url, indexOf(url, ":") + 1)))

\* a blocks link of two components whose second one is not a number
InvalidBlockLink(url) ==
    /\ HasCustomScheme(url)
    /\ Len(ComponentsOf(url)) = 2
    /\ toLower(ComponentsOf(url)[1]) = <<"blocks">>
    /\ ~toInt(ComponentsOf(url)[2]).ok

\* C21: for a blocks link whose second component is not a number,
\* processCustomUrl shows the "Invalid Block Number" warning and gives the web
\* view nothing to load.
C21_InvalidBlockRejected ==
    (Processed /\ InvalidBlockLink(reply.body)) =>
        /\ \E i \in EffectsOf("warning") : effects[i] = Warning("Invalid Block Number")
        /\ EffectsOf("load") = {}

\* a step of the handshake has failed for the login attempt under way
HandshakeFailed ==
    LET in == reply.body
        components == in.components
    IN \/ Len(components) >= 1 /\ components[1] \notin PublicKeyWords
       \/ Len(components) >= 2 /\ components[2] \notin SignatureWords
       \/ /\ Len(components) >= 2
          /\ get_account_record(in.registered, RecoverAccountKey(components[2])) = {}
       \/ Len(components) >= 1 /\ ~SharedSecretDerivable(components[1])
       \/ \E i \in EffectsOf("execReturned") : ~effects[i].arg[2]
       \/ in.accounts = <<>>
       \/ \E i \in EffectsOf("wallet_sign_hash") : in.signThrows \/ ~effects[i].arg[2]

\* C22: when the server one-time key or the signature does not parse, the
\* server account is unknown, the shared secret cannot be derived, the user
\* declines or cancels, the wallet has no account or wallet_sign_hash fails,
\* doLogin does not call open_in_external_browser.
C22_FailureAbortsBeforeRedirect ==
    (reply.kind = "login" /\ HandshakeFailed)
        => EffectsOf("open_in_external_browser") = {}

\* C22 witness: the user has confirmed the account, wallet_sign_hash has been
\* called and has thrown, and the attempt has ended with the warning of
\* line 628
C22_Witness ==
    /\ reply.kind = "login"
    /\ dialogs = <<>>
    /\ \E i \in EffectsOf("execReturned") : effects[i].arg[2]
    /\ EffectsOf("wallet_sign_hash") # {}
    /\ effects[Len(effects)] = Warning("Unable to Login")

\* C23: every wallet_sign_hash call names the account the user has accepted
\* before it, in the confirmation when the wallet has one account and in
\* the chooser when it has several; with no account nothing is signed and
\* the create-account page is opened.
C23_SignerApproved ==
    reply.kind = "login" =>
        /\ \A i \in EffectsOf("wallet_sign_hash") :
              \E j \in EffectsOf("execReturned") :
                 /\ j < i
                 /\ effects[j].arg[2]
                 /\ effects[j].arg[3] = effects[i].arg[1]
                 /\ effects[j].arg[1] = IF Len(reply.body.accounts) = 1
                                        THEN "loginAuthBox" ELSE "userSelecterDialog"
        /\ reply.body.accounts = <<>> =>
              /\ EffectsOf("wallet_sign_hash") = {}
              /\ EffectsOf("exec") = {}
              /\ (\E i \in EffectsOf("warning") :
                     effects[i] = Warning("No Accounts Available"))
                    => effects[Len(effects)] = NavigateTo("/create/account")

\* C23 witness: with two wallet accounts the user has picked the second one in
\* the chooser, and the login has been signed as that account
C23_Witness ==
    /\ reply.kind = "login"
    /\ Len(reply.body.accounts) = 2
    /\ \E i \in EffectsOf("wallet_sign_hash") :
          effects[i].arg[1] = reply.body.accounts[2]
    /\ EffectsOf("open_in_external_browser") # {}

\* C24: the wallet is unlocked whenever doLogin, given a key and a signature
\* to read, calls wallet_sign_hash.
C24_UnlockedBeforeSigning ==
    (reply.kind = "login" /\ Len(reply.body.components) >= 2) =>
        \A i \in EffectsOf("wallet_sign_hash") : effects[i].arg[2]

\* a package request is awaiting its reply
PackageRequestPending == \E trigger \in {"menu", "timer"} : inflight[<<"package", trigger>>] > 0

\* C25: while a package request is under way, the candidate it was issued
\* for (the last one, kept in _webUpdateDescription) is not older than the
\* build and carries trusted signatures enough over some package.
C25_VerifiedBeforeFetch ==
    PackageRequestPending =>
        /\ webUpdateDescription.timestamp >= BuildTimestamp
        /\ \E updatePackage \in Packages :
              verifyUpdateSignature(updatePackage, webUpdateDescription)

\* C26: whenever the timer's check has stopped _updateChecker, the check
\* comes to its finished callback and the timer is running again.
C26_TimerRestarts == ~updateCheckerActive ~> updateCheckerActive

\* no check started from the File menu is under way
TimerChecksOnly ==
    /\ inflight[<<"manifest", "menu">>] = 0
    /\ inflight[<<"package", "menu">>] = 0
    /\ \A i \in 1..Len(dialogs) : dialogs[i].trigger = "timer"
    /\ \A run \in installing : run.trigger = "timer"

\* C27: with checks started by the timer only, _updateChecker is not running
\* while a check awaits its package reply or the answer to its dialog, and
\* at most one "update available" dialog is open.
C27_TimerIdleDuringCheck ==
    TimerChecksOnly =>
        /\ (inflight[<<"package", "timer">>] > 0 \/ dialogs # <<>>) => ~updateCheckerActive
        /\ Len(dialogs) <= 1

\* the two entries have the same identifier
SameIdentifier(a, b) ==
    /\ a.majorVersion = b.majorVersion
    /\ a.forkVersion = b.forkVersion
    /\ a.minorVersion = b.minorVersion
    /\ a.patchVersion = b.patchVersion

\* exactly one of the three holds
ExactlyOne(p, q, r) == (p /\ ~q /\ ~r) \/ (~p /\ q /\ ~r) \/ (~p /\ ~q /\ r)

\* C28: operator< is irreflexive and transitive, and of a < b, b < a and
\* "same identifier" exactly one holds; the std::set built from the entries
\* is strictly ascending and holds one entry, one of those inserted, for
\* every identifier inserted.
C28_StrictTotalOrder ==
    reply.kind = "entries" =>
        LET a == reply.body[1]
            b == reply.body[2]
            c == reply.body[3]
        IN /\ ~Less(a, a)
           /\ (Less(a, b) /\ Less(b, c)) => Less(a, c)
           /\ ExactlyOne(Less(a, b), Less(b, a), SameIdentifier(a, b))
           /\ effects # <<>> =>
                 LET updates == effects[1].arg
                 IN /\ \A i \in 1..Len(updates) : \A j \in 1..Len(updates) :
                          /\ i < j => Less(updates[i], updates[j])
                          /\ i # j => ~SameIdentifier(updates[i], updates[j])
                    /\ \A i \in 1..Len(updates) : updates[i] \in {a, b, c}
                    /\ \A k \in 1..3 : \E i \in 1..Len(updates) :
                          SameIdentifier(updates[i], reply.body[k])

\* C28 witness: two entries of one identifier with different signatures and a
\* lower third one, inserted last, have made a set of two
C28_Witness ==
    /\ reply.kind = "entries"
    /\ effects # <<>>
    /\ SameIdentifier(reply.body[1], reply.body[2])
    /\ reply.body[1] # reply.body[2]
    /\ Less(reply.body[3], reply.body[1])
    /\ Len(effects[1].arg) = 2
    /\ effects[1].arg[1] = reply.body[3]

\* the run of SpecPackage has installed its package and the queued
\* loadWebUpdates has run
InstalledAndLoaded ==
    /\ webDat # {}
    /\ installing = {}
    /\ pendingLoads = 0

OwnLine(u) ==
    /\ u.majorVersion = majorVersion
    /\ u.forkVersion = forkVersion
    /\ u.minorVersion = minorVersion

\* the entry is of a line after the client's
LaterLine(u) ==
    \/ u.majorVersion > majorVersion
    \/ u.majorVersion = majorVersion /\ u.forkVersion > forkVersion
    \/ /\ u.majorVersion = majorVersion
       /\ u.forkVersion = forkVersion
       /\ u.minorVersion > minorVersion

\* C30: the probe the manifest handler has searched the manifest with is
\* greater than every entry of the client's own line and not greater than
\* any entry of a later line.
C30_ProbeSeparatesLines ==
    (reply.kind = "manifest" /\ Handled) =>
        \A u \in ReplyUpdates :
           /\ OwnLine(u) => Less(u, Probe(majorVersion, forkVersion, minorVersion))
           /\ LaterLine(u) => ~Less(u, Probe(majorVersion, forkVersion, minorVersion))

\* C31: every URL the web view is given to load has the host localhost or
\* 127.0.0.1.
C31_LocalPagesOnly ==
    reply.kind \in {"location", "urlChanged"} =>
        \A i \in EffectsOf("load") :
           effects[i].arg # <<>> => UrlHost(effects[i].arg) \in LocalHosts

\* C36: the urlChanged handler attaches application, bitshares and
\* magic_unicorn when the new URL is empty or has the host localhost or
\* 127.0.0.1, and nothing when it has any other host.
C36_BridgeForLocalPagesOnly ==
    (reply.kind = "urlChanged" /\ effects # <<>>) =>
        IF reply.body = <<>> \/ UrlHost(reply.body) \in LocalHosts
        THEN \A name \in {"application", "bitshares", "magic_unicorn"} :
                \E i \in EffectsOf("addToJavaScriptWindowObject") :
                   effects[i] = AddToJavaScriptWindowObject(name)
        ELSE EffectsOf("addToJavaScriptWindowObject") = {}

\* C36 witness: the URL has changed to one of another host that carries a
\* local address as its user info, and nothing has been attached
C36_Witness ==
    /\ reply.kind = "urlChanged"
    /\ effects # <<>>
    /\ Len(reply.body) >= 7
    /\ reply.body[5] = "127.0.0.1"
    /\ reply.body[6] = "@"
    /\ reply.body[7] = "evil.com"
    /\ EffectsOf("addToJavaScriptWindowObject") = {}

\* C32: the descriptor an install has written to web.json is one against
\* which the bytes of that install were verified.
C32_DescriptorOfVerifiedPackage ==
    \A run \in installing :
        run.at = "finish" => \A d \in webJson : verifyUpdateSignature(run.package, d)

\* the patch the constructor reads from the build's version string
BuildPatchVersion ==
    CHOOSE patch \in PatchCodes :
        <<majorVersion, forkVersion, minorVersion, patch>> \in ClientVersions

\* C33: _patchVersion is the patch of the active bundle's descriptor, and the
\* build's own patch when no bundle is active.
C33_PatchOfActiveBundle ==
    started =>
        IF activeSource = {} THEN patchVersion = BuildPatchVersion
        ELSE \A src \in activeSource : patchVersion = src.desc.patchVersion

\* the step begins the writes of an install
InstallBegins == installing = {} /\ installing' # {}

\* the step closes the innermost update dialog and the process lives on
DialogClosed ==
    /\ dialogs # <<>>
    /\ dialogs' = SubSeq(dialogs, 1, Len(dialogs) - 1)
    /\ started'

\* C37: the writes of an install begin only in the step that closes the
\* update dialog of a verified package, and with that package; package bytes
\* and a descriptor reach the files and loadWebUpdates is queued only within
\* such an install; a dialog closed without an install leaves both files, the
\* bundle in memory and _patchVersion as they were.
C37_InstallByConsent ==
    [][ /\ InstallBegins =>
              /\ DialogClosed
              /\ installing' = {[trigger |-> dialogs[Len(dialogs)].trigger,
                                 package |-> dialogs[Len(dialogs)].package,
                                 at |-> "write"]}
        /\ (webDat' # webDat /\ webDat' # {}) =>
              \E run \in installing : webDat' \in {{run.package}, {PrefixOf(run.package)}}
        /\ (webJson' # webJson /\ webJson' # {}) =>
              \E run \in installing : run.at = "save"
        /\ pendingLoads' > pendingLoads =>
              \E run \in installing : run.at = "finish"
        /\ (DialogClosed /\ ~InstallBegins) =>
              UNCHANGED <<webJson, webDat, webPackage, activeSource, patchVersion,
                          pendingLoads>> ]_vars

\* C37 witness: the user has answered Yes while the update dialog of another
\* run is still open, and nothing has been written
C37_Witness ==
    /\ \E run \in installing : run.at = "write"
    /\ dialogs # <<>>
    /\ webJson = {}
    /\ webDat = {}

\* the parameters of the call: the components after the first
\* (goToRefCode) or after the second (goToTransfer)
ParametersOfCall ==
    SubSeq(reply.body, IF reply.kind = "goToRefCode" THEN 2 ELSE 3, Len(reply.body))

\* the value stands in the parameters directly after the name
FollowsName(name, value) ==
    \E i \in 1..(Len(ParametersOfCall) - 1) :
        ParametersOfCall[i] = name /\ ParametersOfCall[i + 1] = value

\* C39: for every component list with a first component, and the wallet
\* unlocked, the parse loops of goToRefCode and goToTransfer take no element
\* from an empty list, the call ends in navigateTo, and every value given to
\* the page stands in the list directly after its name.
C39_ParseNeverTakesFromEmpty ==
    (/\ reply.kind \in {"goToRefCode", "goToTransfer"}
     /\ reply.body # <<>>
     /\ effects # <<>>
     /\ walletUnlocked)
        => /\ EffectsOf("takeFromEmptyList") = {}
           /\ \E i \in EffectsOf("navigateTo") :
                 LET path == effects[i].arg
                 IN IF reply.kind = "goToRefCode"
                    THEN /\ path[2] # "" => FollowsName("faucet", path[2])
                         /\ path[4] # "" => FollowsName("code", path[4])
                    ELSE /\ path[2] # "" => FollowsName("from", path[2])
                         /\ path[6] # "" => FollowsName("amount", path[6])
                         /\ path[8] # "" => FollowsName("asset", path[8])
                         /\ path[10] # "" => FollowsName("memo", path[10])

\* the run is one with the client and its wallet in existence
ClientExists ==
    \/ reply.kind = "removeWebUpdates"
    \/ reply.kind = "loadWebUpdates" /\ reply.body.clientExists

\* C35: in a loadWebUpdates or removeWebUpdates run with the client and its
\* wallet in existence, the web view is reloaded only after the wallet has
\* been locked in that run, and the run ends with the wallet locked whenever
\* it has replaced or cleared the bundle.
C35_LockedBeforeReload ==
    (reply.kind \in {"loadWebUpdates", "removeWebUpdates"} /\ ClientExists) =>
        /\ \A i \in EffectsOf("reload") : \E j \in EffectsOf("lock") : j < i
        /\ EffectsOf("set_web_package") # {} =>
              (EffectsOf("reload") # {} /\ ~walletUnlocked)

\* C35 witness: loadWebUpdates, with the client up, has made the pair on disk
\* the active bundle, has locked the wallet and has reloaded the view
C35_Witness ==
    /\ reply.kind = "loadWebUpdates"
    /\ reply.body.clientExists
    /\ EffectsOf("lock") # {}
    /\ EffectsOf("reload") # {}
    /\ \E src \in activeSource : webPackage # EmptyWebPackage /\ src.desc \in webJson

\* C34: processCustomUrl is not called before the client is initialized and
\* the first load of the web view has finished.
C34_DeferredUntilLoaded ==
    startup \in {"exec", "initialized"} =>
        \A i \in 1..Len(effects) : effects[i].op # "processCustomUrl"

\* the calls of op made with url, by their places in effects
CallsWith(op, url) == {i \in EffectsOf(op) : effects[i].arg = url}

\* C38: once the first load has finished, every URL that was given to
\* deferCustomUrl while the window was not visible has been handed to
\* processCustomUrl exactly once, by processDeferredUrl, and _deferredUrl is
\* empty.
C38_DeferredHandledOnce ==
    startup = "loaded" =>
        /\ deferredUrl = <<>>
        /\ \A url \in DeepLinks :
              CallsWith("deferCustomUrl", url) # {} =>
                 \E i \in CallsWith("processDeferredUrl", url) :
                    /\ i + 1 \in CallsWith("processCustomUrl", url)
                    /\ \A j \in CallsWith("deferCustomUrl", url) : j < i

====
